---- MODULE Spec2Model ----
(***************************************************************************)
(* UCHRABVR: folding the amounts of secondary payment codes into their     *)
(* primary payment codes and generating SQL UPDATE statements.             *)
(*                                                                         *)
(* The model follows src/SRC/uchrabvr.py (class Uchrabvr), the helpers of  *)
(* src/SRC/common.py it calls and the ValueError path of                   *)
(* src/SRC/uchrabvr_cli.py (run_once).  Strings that the program only      *)
(* compares (codes, dates, ids) are TLA+ strings; strings the program      *)
(* parses or slices (amounts, months) are sequences of one-character       *)
(* strings.                                                                *)
(*                                                                         *)
(* UDER, the check of the tax withholdings by month (src/SRC/uder.py,      *)
(* class Uder), is modelled by SpecUder; SpecValidate, SpecSum and         *)
(* SpecMount apply validate_unique_secondary_codes, Common.sum_str and     *)
(* Uder.normalize_mount to arguments of their own; SpecFind applies        *)
(* Uchrabvr.find_uchrabvr and the find_uchrabvr of the earlier variant     *)
(* src/SRC/otpusk.py to the same group.                                    *)
(***************************************************************************)
EXTENDS Integers, Sequences, FiniteSets, TLC

(***************************************************************************)
(* Bounds of the model.                                                    *)
(***************************************************************************)
\* longest input stream read by start() (not counting the longer files given by
\* name), and longest group handed to the two find_uchrabvr
MaxLen == 3
\* longest code table handed to validate_unique_secondary_codes
MaxMappings == 3

(***************************************************************************)
(* Generic helpers.                                                        *)
(***************************************************************************)
Range(s) == {s[k] : k \in DOMAIN s}

Max(a, b) == IF a >= b THEN a ELSE b

RECURSIVE Pow10(_)
Pow10(n) == IF n = 0 THEN 1 ELSE 10 * Pow10(n - 1)

\* the positions of 1..n that are in keep, ascending
RECURSIVE SelectSeqIdx(_, _)
SelectSeqIdx(n, keep) ==
    IF n = 0 THEN << >>
    ELSE IF n \in keep THEN Append(SelectSeqIdx(n - 1, keep), n)
         ELSE SelectSeqIdx(n - 1, keep)

RECURSIVE Flatten(_)
Flatten(ss) == IF ss = << >> THEN << >> ELSE Head(ss) \o Flatten(Tail(ss))

(***************************************************************************)
(* Decimal arithmetic of Common.sum_str: decimal.Decimal(str), "+",        *)
(* quantize(Decimal("0.01"), ROUND_HALF_EVEN) and str().                   *)
(* A parsed decimal is [ok, neg, coef, scale]: value (-1)^neg*coef/10^scale*)
(* The alphabet of the amounts of the input rows is digits, ".", "+", "-"  *)
(* and the letter "t"; exponents, blanks and "_" are outside the model.    *)
(* NaN and Infinity are read by SumStrCall, further down.                  *)
(***************************************************************************)
Digits == <<"0", "1", "2", "3", "4", "5", "6", "7", "8", "9">>

IsDigit(c) == \E d \in 1..10 : Digits[d] = c

DigitVal(c) == (CHOOSE d \in 1..10 : Digits[d] = c) - 1

\* value of a sequence of digit characters (empty: 0)
RECURSIVE DigitsToNat(_)
DigitsToNat(ds) ==
    IF ds = << >> THEN 0
    ELSE 10 * DigitsToNat(SubSeq(ds, 1, Len(ds) - 1)) + DigitVal(ds[Len(ds)])

\* decimal digits of a natural number, "0" for zero
RECURSIVE NatToDigits(_)
NatToDigits(n) ==
    IF n < 10 THEN <<Digits[n + 1]>>
    ELSE Append(NatToDigits(n \div 10), Digits[(n % 10) + 1])

Invalid == [ok |-> FALSE, neg |-> FALSE, coef |-> 0, scale |-> 0]

\* Decimal(s): [sign] digits [. digits] with at least one digit
ParseDecimal(s) ==
    LET signed == Len(s) > 0 /\ s[1] \in {"-", "+"}
        body   == IF signed THEN Tail(s) ELSE s
        dots   == {k \in DOMAIN body : body[k] = "."}
        dot    == IF dots = {} THEN Len(body) + 1 ELSE CHOOSE k \in dots : TRUE
        ip     == SubSeq(body, 1, dot - 1)
        fp     == SubSeq(body, dot + 1, Len(body))
    IN  IF /\ Cardinality(dots) <= 1
           /\ \A k \in DOMAIN body : k \notin dots => IsDigit(body[k])
           /\ Len(ip) + Len(fp) > 0
        THEN [ok    |-> TRUE,
              neg   |-> signed /\ s[1] = "-",
              coef  |-> DigitsToNat(ip \o fp),
              scale |-> Len(fp)]
        ELSE Invalid

\* signed integer of d at scale sc (sc >= d.scale)
Scaled(d, sc) ==
    (IF d.neg THEN -1 ELSE 1) * d.coef * Pow10(sc - d.scale)

\* a plausible slip: a zero sum takes the sign of the first operand
DecAddSignOfFirst(a, b) ==
    LET sc == Max(a.scale, b.scale)
        v  == Scaled(a, sc) + Scaled(b, sc)
    IN  [ok    |-> TRUE,
         neg   |-> IF v = 0 THEN a.neg ELSE v < 0,
         coef  |-> IF v < 0 THEN -v ELSE v,
         scale |-> sc]

\* Decimal.__add__: exact sum; a zero sum is negative only when both operands are
DecAdd(a, b) ==
    LET sc == Max(a.scale, b.scale)
        v  == Scaled(a, sc) + Scaled(b, sc)
    IN  [ok    |-> TRUE,
         neg   |-> IF v = 0 THEN a.neg /\ b.neg ELSE v < 0,
         coef  |-> IF v < 0 THEN -v ELSE v,
         scale |-> sc]

\* a plausible slip: ROUND_HALF_UP
Quantize2HalfUp(d) ==
    IF d.scale <= 2
    THEN [d EXCEPT !.coef = d.coef * Pow10(2 - d.scale), !.scale = 2]
    ELSE LET unit == Pow10(d.scale - 2)
             q    == d.coef \div unit
             r    == d.coef % unit
         IN  [d EXCEPT !.coef = IF 2 * r >= unit THEN q + 1 ELSE q, !.scale = 2]

\* quantize(Decimal("0.01"), rounding=ROUND_HALF_EVEN): the sign is kept
Quantize2(d) ==
    IF d.scale <= 2
    THEN [d EXCEPT !.coef = d.coef * Pow10(2 - d.scale), !.scale = 2]
    ELSE LET unit == Pow10(d.scale - 2)
             q    == d.coef \div unit
             r    == d.coef % unit
             up   == 2 * r > unit \/ (2 * r = unit /\ q % 2 = 1)
         IN  [d EXCEPT !.coef = IF up THEN q + 1 ELSE q, !.scale = 2]

\* str() of a decimal with exponent -2
DecStr(d) ==
    LET cents == d.coef % 100
    IN  (IF d.neg THEN <<"-">> ELSE << >>)
        \o NatToDigits(d.coef \div 100)
        \o <<".", Digits[(cents \div 10) + 1], Digits[(cents % 10) + 1]>>

\* Common.sum_str raises ValueError exactly when one operand does not parse
SumStrFails(s1, s2) == ~ParseDecimal(s1).ok \/ ~ParseDecimal(s2).ok

\* Common.sum_str on operands that parse
sum_str(s1, s2) ==
    DecStr(Quantize2(DecAdd(ParseDecimal(s1), ParseDecimal(s2))))

(***************************************************************************)
(* Constants of uchrabvr.py.                                               *)
(***************************************************************************)
ZERO == <<"0", ".", "0", "0">>

START_CLSCH == "-1"

(***************************************************************************)
(* The code table.  A side of a mapping is a str or a tuple of str:        *)
(* [isStr |-> TRUE, val |-> "20"] or [isStr |-> FALSE, val |-> <<..>>].    *)
(***************************************************************************)
Str(c) == [isStr |-> TRUE, val |-> c]

Tup(t) == [isStr |-> FALSE, val |-> t]

PrimarySecondaryCodes(p, s) == [primary |-> p, secondary |-> s]

PRIMARY_SECONDARY_PAYCODES ==
    << PrimarySecondaryCodes(Tup(<<"18", "48", "87", "204">>), Tup(<<"305", "306">>)),
       PrimarySecondaryCodes(Str("20"), Tup(<<"315", "316">>)),
       PrimarySecondaryCodes(Str("54"), Tup(<<"313", "314">>)),
       PrimarySecondaryCodes(Str("76"), Tup(<<"309", "310">>)),
       PrimarySecondaryCodes(Str("77"), Tup(<<"311", "312">>)),
       PrimarySecondaryCodes(Tup(<<"106", "104", "110", "112">>), Tup(<<"303", "304">>)),
       PrimarySecondaryCodes(Tup(<<"107", "111">>), Tup(<<"307", "308">>)),
       PrimarySecondaryCodes(Tup(<<"108", "109">>), Tup(<<"318", "319">>)) >>

\* Common.normalize_tuple_str
normalize_tuple_str(x) == IF x.isStr THEN <<x.val>> ELSE x.val

\* Python's "code in side": membership in a tuple, substring of a str.  No row code
\* of the model is a proper substring of a str side, so on a str it is equality.
CodeIn(code, side) ==
    IF side.isStr THEN code = side.val ELSE code \in Range(side.val)

\* Uchrabvr.validate_unique_secondary_codes: the codes met again, in the order met
\* (all_codes is filled from the primary and the secondary codes alike)
RECURSIVE DupScan(_, _)
DupScan(codes, seen) ==
    IF codes = << >> THEN << >>
    ELSE IF Head(codes) \in seen
         THEN <<Head(codes)>> \o DupScan(Tail(codes), seen)
         ELSE DupScan(Tail(codes), seen \cup {Head(codes)})

\* a plausible slip: all_codes is emptied for every mapping, so only repetitions
\* inside one mapping are seen
ValidateWithinMapping(variable_vidops) ==
    Flatten([k \in DOMAIN variable_vidops |->
                DupScan(normalize_tuple_str(variable_vidops[k].primary)
                        \o normalize_tuple_str(variable_vidops[k].secondary), {})])

validate_unique_secondary_codes(variable_vidops) ==
    DupScan(Flatten([k \in DOMAIN variable_vidops |->
                        normalize_tuple_str(variable_vidops[k].primary)
                        \o normalize_tuple_str(variable_vidops[k].secondary)]),
            {})


(***************************************************************************)
(* Input rows (UchrabvrStructure without mes and mesn, which the program   *)
(* never reads).  Positions in person_uchrabvr are 1-based here, 0-based   *)
(* in the source.                                                          *)
(***************************************************************************)
UchrabvrStructure(nrec, tabn, vidop, summa, summaval, datan, datok, clsch) ==
    [nrec |-> nrec, tabn |-> tabn, vidop |-> vidop, summa |-> summa,
     summaval |-> summaval, datan |-> datan, datok |-> datok, clsch |-> clsch]

S_100   == <<"1", "0", "0", ".", "0", "0">>
S_50    == <<"5", "0", ".", "0", "0">>
S_7_50  == <<"7", ".", "5", "0">>
S_m90   == <<"-", "9", "0", ".", "0", "0">>
S_3t14  == <<"3", "t", "1", "4">>

Jan1  == "2025-01-01"
Jan15 == "2025-01-15"
Jan31 == "2025-01-31"

\* the rows an input file is made of; nrec is given by the row's place in the file
RowChoices ==
    { UchrabvrStructure("", "001", "18",  ZERO,   ZERO,   Jan1, Jan31, "A"),
      UchrabvrStructure("", "001", "48",  S_7_50, ZERO,   Jan1, Jan31, "A"),
      UchrabvrStructure("", "001", "305", ZERO,   S_100,  Jan1, Jan31, "A"),
      UchrabvrStructure("", "001", "18",  ZERO,   ZERO,   Jan1, Jan15, "A"),
      UchrabvrStructure("", "001", "305", ZERO,   S_3t14, Jan1, Jan31, "A"),
      UchrabvrStructure("", "001", "999", ZERO,   ZERO,   Jan1, Jan31, "A"),
      UchrabvrStructure("", "002", "18",  ZERO,   ZERO,   Jan1, Jan31, "B"),
      UchrabvrStructure("", "002", "305", S_50,   S_m90,  Jan1, Jan31, "B"),
      UchrabvrStructure("", "003", "999", ZERO,   ZERO,   Jan1, Jan31, START_CLSCH) }

Nrecs == <<"10", "11", "12", "13", "14", "15">>

S_m100  == <<"-", "1", "0", "0", ".", "0", "0">>

\* longer files: two employees with a matched pair each; one employee with
\* two periods, a matched pair in each, followed by another employee; one employee
\* whose two secondary rows cancel
TwoGroupsFile ==
    << UchrabvrStructure("10", "001", "18",  ZERO, ZERO,  Jan1, Jan31, "A"),
       UchrabvrStructure("11", "001", "305", ZERO, S_100, Jan1, Jan31, "A"),
       UchrabvrStructure("12", "002", "18",  ZERO, ZERO,  Jan1, Jan31, "B"),
       UchrabvrStructure("13", "002", "305", S_50, S_m90, Jan1, Jan31, "B") >>

TwoPeriodsFile ==
    << UchrabvrStructure("10", "001", "18",  ZERO, ZERO,   Jan1, Jan31, "A"),
       UchrabvrStructure("11", "001", "305", ZERO, S_100,  Jan1, Jan15, "A"),
       UchrabvrStructure("12", "001", "18",  ZERO, ZERO,   Jan1, Jan15, "A"),
       UchrabvrStructure("13", "001", "306", ZERO, S_7_50, Jan1, Jan31, "A"),
       UchrabvrStructure("14", "002", "999", ZERO, ZERO,   Jan1, Jan31, "B") >>

CancelFile ==
    << UchrabvrStructure("10", "001", "18",  ZERO, ZERO,   Jan1, Jan31, "A"),
       UchrabvrStructure("11", "001", "305", ZERO, S_100,  Jan1, Jan31, "A"),
       UchrabvrStructure("12", "001", "306", ZERO, S_m100, Jan1, Jan31, "A"),
       UchrabvrStructure("13", "002", "18",  ZERO, ZERO,   Jan1, Jan31, "B") >>

\* an employee with a secondary row without primary and a matched pair, then an
\* employee with two primaries for one secondary row
MixedFile ==
    << UchrabvrStructure("10", "001", "305", ZERO,   S_7_50, Jan1, Jan15, "A"),
       UchrabvrStructure("11", "001", "18",  ZERO,   ZERO,   Jan1, Jan31, "A"),
       UchrabvrStructure("12", "001", "305", ZERO,   S_100,  Jan1, Jan31, "A"),
       UchrabvrStructure("13", "002", "18",  ZERO,   ZERO,   Jan1, Jan31, "B"),
       UchrabvrStructure("14", "002", "48",  ZERO,   ZERO,   Jan1, Jan31, "B"),
       UchrabvrStructure("15", "002", "305", ZERO,   S_m90,  Jan1, Jan31, "B") >>

\* an employee with a pair of the second mapping, whose primary side is a str
SecondMappingFile ==
    << UchrabvrStructure("10", "001", "20",  ZERO, ZERO, Jan1, Jan31, "A"),
       UchrabvrStructure("11", "001", "316", ZERO, S_50, Jan1, Jan31, "A") >>

S_0_005 == <<"0", ".", "0", "0", "5">>

\* an employee with two secondary amounts of three fractional digits
ThreeDigitsFile ==
    << UchrabvrStructure("10", "001", "18",  ZERO, ZERO,    Jan1, Jan31, "A"),
       UchrabvrStructure("11", "001", "305", ZERO, S_0_005, Jan1, Jan31, "A"),
       UchrabvrStructure("12", "001", "306", ZERO, S_0_005, Jan1, Jan31, "A") >>

\* an employee with a matched pair, then an employee with a matched pair and a
\* second secondary row whose amount is no number
BadAmountFile ==
    << UchrabvrStructure("10", "001", "18",  ZERO, ZERO,   Jan1, Jan31, "A"),
       UchrabvrStructure("11", "001", "305", ZERO, S_100,  Jan1, Jan31, "A"),
       UchrabvrStructure("12", "002", "18",  ZERO, ZERO,   Jan1, Jan31, "B"),
       UchrabvrStructure("13", "002", "305", ZERO, S_m90,  Jan1, Jan31, "B"),
       UchrabvrStructure("14", "002", "306", ZERO, S_3t14, Jan1, Jan31, "B") >>

LongerFiles ==
    {TwoGroupsFile, TwoPeriodsFile, CancelFile, MixedFile, SecondMappingFile,
     ThreeDigitsFile, BadAmountFile}

\* the input files: all files of at most MaxLen rows, and the longer files
Inputs ==
    UNION { { [k \in 1..n |-> [f[k] EXCEPT !.nrec = Nrecs[k]]] :
              f \in [1..n -> RowChoices] } : n \in 0..MaxLen }
    \cup LongerFiles

\* the tables the module constant PRIMARY_SECONDARY_PAYCODES is taken from: the
\* table of common.py and the broken tables of the tests
BrokenTable ==
    << PrimarySecondaryCodes(Tup(<<"18">>), Tup(<<"305", "306">>)),
       PrimarySecondaryCodes(Tup(<<"20">>), Tup(<<"315", "316">>)),
       PrimarySecondaryCodes(Tup(<<"54">>), Tup(<<"305">>)) >>

Tables == {PRIMARY_SECONDARY_PAYCODES, BrokenTable}

(***************************************************************************)
(* State.                                                                  *)
(***************************************************************************)
VARIABLES
    pc,                 \* where the run is: see the actions
    paycodes,           \* the module constant PRIMARY_SECONDARY_PAYCODES in force
    return_code,        \* Uchrabvr.return_code
    input,              \* the rows of the input file
    pos,                \* number of rows start() has taken from the stream
    current_clsch,      \* local of start()
    person_uchrabvr,    \* Uchrabvr.person_uchrabvr
    index_by_key,       \* Uchrabvr._index_by_key
    processed_vidops,   \* Uchrabvr.processed_vidops
    SQL_update_queries, \* Uchrabvr.SQL_update_queries
    i,                  \* position of processing_vidops' loop in the group
    caller,             \* the call of processing_person in progress: "loop", "tail"
    log,                \* the messages handed to Common.error, in order
    groups,             \* history: the groups processing_person has worked on
    exit_code,          \* value returned by run_once, -1 while it has not returned
    duplicate_codes,    \* list returned by a direct call of
                        \* validate_unique_secondary_codes
    s1, s2,             \* arguments of a direct call of Common.sum_str
    sum_result,         \* how that call ended: the value returned or the exception
    mount,              \* argument of a direct call of Uder.normalize_mount
    mount_result,       \* its result
    mount_again,        \* the result of normalize_mount applied to that result
    all_uders,          \* the rows of UDER.txt
    uder_pos,           \* number of rows Uder.start has taken from the stream
    uder_clsch,         \* local current_clsch of Uder.start
    person_uders,       \* Uder.person_uders
    normalize_last_mount, \* Uder.normalize_last_mount
    filtered_uders,     \* local of processing_person
    i_uder,             \* position of validate_person_groups' loop
    current_group,      \* local of validate_person_groups
    summa,              \* local of validate_person_groups
    info_log,           \* the lines handed to logging.info, in order
    uder_caller,        \* the call of Uder.processing_person in progress
    find_primary_vidops, \* argument primary_vidops of a direct call of find_uchrabvr
    find_datan,         \* its argument datan
    find_datok,         \* its argument datok
    nums_by_index,      \* the list Uchrabvr.find_uchrabvr returns
    nums_by_scan        \* the list Otpusk.find_uchrabvr returns for the same group

\* the state of Uchrabvr and run_once, of the direct calls of the helpers, of Uder,
\* of the comparison of the two find_uchrabvr
uchrabvrVars == <<paycodes, return_code, input, pos, current_clsch, person_uchrabvr,
                  index_by_key, processed_vidops, SQL_update_queries, i, caller, log,
                  groups, exit_code, duplicate_codes>>

sumVars == <<s1, s2, sum_result>>

mountVars == <<mount, mount_result, mount_again>>

uderVars == <<all_uders, uder_pos, uder_clsch, person_uders, normalize_last_mount,
              filtered_uders, i_uder, current_group, summa, info_log, uder_caller>>

findVars == <<find_primary_vidops, find_datan, find_datok, nums_by_index, nums_by_scan>>

vars == <<pc, uchrabvrVars, sumVars, mountVars, uderVars, findVars>>

\* Common.error(tabn, text): the text is kept as its template and its arguments
Diag(kind, tabn, args) == [kind |-> kind, tabn |-> tabn, args |-> args]

\* a plausible slip: the rows go into the stream with the sums of the file
StreamRowKeepsSumma(k) == input[k]

\* the stream of start(): every row with summa reset to ZERO
StreamRow(k) == [input[k] EXCEPT !.summa = ZERO]

\* a Python value handed to a function: a str, or an int given by its digits
PyStr(s) == [type |-> "str", val |-> s]

PyInt(s) == [type |-> "int", val |-> s]

\* how a call ended: with a value, or with an exception
Returned(v) == [raised |-> "none", value |-> v]

Raised(e) == [raised |-> e, value |-> << >>]

\* no direct call of sum_str or normalize_mount, no Uder object
SumIdle ==
    /\ s1 = PyStr(<< >>)
    /\ s2 = PyStr(<< >>)
    /\ sum_result = Returned(<< >>)

MountIdle ==
    /\ mount = << >>
    /\ mount_result = << >>
    /\ mount_again = << >>

UderIdle ==
    /\ all_uders = << >>
    /\ uder_pos = 0
    /\ uder_clsch = << >>
    /\ person_uders = << >>
    /\ normalize_last_mount = << >>
    /\ filtered_uders = << >>
    /\ i_uder = 1
    /\ current_group = << >>
    /\ summa = ZERO
    /\ info_log = << >>
    /\ uder_caller = "none"

\* no direct call of find_uchrabvr
FindIdle ==
    /\ find_primary_vidops = Tup(<< >>)
    /\ find_datan = ""
    /\ find_datok = ""
    /\ nums_by_index = << >>
    /\ nums_by_scan = << >>

\* no Uchrabvr object
UchrabvrIdle ==
    /\ paycodes = PRIMARY_SECONDARY_PAYCODES
    /\ return_code = 0
    /\ input = << >>
    /\ pos = 0
    /\ current_clsch = START_CLSCH
    /\ person_uchrabvr = << >>
    /\ index_by_key = << >>
    /\ processed_vidops = {}
    /\ SQL_update_queries = << >>
    /\ i = 1
    /\ caller = "none"
    /\ log = << >>
    /\ groups = << >>
    /\ exit_code = -1
    /\ duplicate_codes = << >>

Init ==
    /\ pc = "new"
    /\ paycodes \in Tables
    /\ return_code = 0
    /\ input = << >>
    /\ pos = 0
    /\ current_clsch = START_CLSCH
    /\ person_uchrabvr = << >>
    /\ index_by_key = << >>
    /\ processed_vidops = {}
    /\ SQL_update_queries = << >>
    /\ i = 1
    /\ caller = "none"
    /\ log = << >>
    /\ groups = << >>
    /\ exit_code = -1
    /\ duplicate_codes = << >>
    /\ SumIdle
    /\ MountIdle
    /\ UderIdle
    /\ FindIdle

(***************************************************************************)
(* Construction: Uchrabvr.__init__                                         *)
(***************************************************************************)
\* a plausible slip: the missing file is only warned about
FillInParametersZero(cfg_exists) == 0

\* Common.fill_in_parameters: 1 and a warning when the file is missing, else 0
fill_in_parameters(cfg_exists) == IF cfg_exists THEN 0 ELSE 1

CfgDiag(cfg_exists) ==
    IF cfg_exists THEN << >> ELSE <<Diag("CfgNotFound", "-----", <<"uchrabvr.cfg">>)>>

\* _init_config, _init_validate without duplicates, _init_state
Construct ==
    /\ pc = "new"
    /\ validate_unique_secondary_codes(paycodes) = << >>
    /\ \E cfg_exists \in BOOLEAN :
          /\ return_code' = fill_in_parameters(cfg_exists)
          /\ log' = log \o CfgDiag(cfg_exists)
    /\ person_uchrabvr' = << >>
    /\ processed_vidops' = {}
    /\ SQL_update_queries' = << >>
    /\ pc' = "ready"
    /\ UNCHANGED <<paycodes, input, pos, current_clsch, index_by_key, i, caller,
                   groups, exit_code, duplicate_codes,
                   sumVars, mountVars, uderVars, findVars>>

\* _init_config, then _init_validate raises ValueError: no object is made
ConstructFails ==
    /\ pc = "new"
    /\ validate_unique_secondary_codes(paycodes) # << >>
    /\ \E cfg_exists \in BOOLEAN :
          /\ return_code' = fill_in_parameters(cfg_exists)
          /\ log' = log \o CfgDiag(cfg_exists)
                        \o <<Diag("DuplicateCodes", "-----",
                                  <<validate_unique_secondary_codes(paycodes)>>)>>
    /\ pc' = "config_error"
    /\ UNCHANGED <<paycodes, input, pos, current_clsch, person_uchrabvr,
                   index_by_key, processed_vidops, SQL_update_queries, i, caller,
                   groups, exit_code, duplicate_codes,
                   sumVars, mountVars, uderVars, findVars>>


(***************************************************************************)
(* start(): the loop over the stream                                       *)
(***************************************************************************)
\* service_warning, opening the stream, current_clsch = "-1"
Start ==
    /\ pc = "ready"
    /\ \E rows \in Inputs : input' = rows
    /\ pos' = 0
    /\ current_clsch' = START_CLSCH
    /\ pc' = "loop"
    /\ UNCHANGED <<paycodes, return_code, person_uchrabvr, index_by_key,
                   processed_vidops, SQL_update_queries, i, caller, log, groups,
                   exit_code, duplicate_codes,
                   sumVars, mountVars, uderVars, findVars>>

\* one row of the same employee: appended to the working set
ReadSame ==
    /\ pc = "loop"
    /\ pos < Len(input)
    /\ StreamRow(pos + 1).clsch = current_clsch
    /\ pos' = pos + 1
    /\ person_uchrabvr' = Append(person_uchrabvr, StreamRow(pos + 1))
    /\ UNCHANGED <<pc, paycodes, return_code, input, current_clsch, index_by_key,
                   processed_vidops, SQL_update_queries, i, caller, log, groups,
                   exit_code, duplicate_codes,
                   sumVars, mountVars, uderVars, findVars>>

\* a row of another employee while nothing is accumulated: processing_person
\* returns at once, the row starts the new working set
ReadFirst ==
    /\ pc = "loop"
    /\ pos < Len(input)
    /\ StreamRow(pos + 1).clsch # current_clsch
    /\ person_uchrabvr = << >>
    /\ pos' = pos + 1
    /\ current_clsch' = StreamRow(pos + 1).clsch
    /\ person_uchrabvr' = <<StreamRow(pos + 1)>>
    /\ UNCHANGED <<pc, paycodes, return_code, input, index_by_key,
                   processed_vidops, SQL_update_queries, i, caller, log, groups,
                   exit_code, duplicate_codes,
                   sumVars, mountVars, uderVars, findVars>>

\* a row of another employee: processing_person is entered for the accumulated group
ReadChange ==
    /\ pc = "loop"
    /\ pos < Len(input)
    /\ StreamRow(pos + 1).clsch # current_clsch
    /\ person_uchrabvr # << >>
    /\ pos' = pos + 1
    /\ pc' = "index"
    /\ caller' = "loop"
    /\ UNCHANGED <<paycodes, return_code, input, current_clsch, person_uchrabvr,
                   index_by_key, processed_vidops, SQL_update_queries, i, log,
                   groups, exit_code, duplicate_codes,
                   sumVars, mountVars, uderVars, findVars>>

\* a plausible slip: the loop ends and the accumulated tail is never processed
EndOfStreamNoFlush ==
    /\ pc = "loop"
    /\ pos = Len(input)
    /\ pc' = "done"
    /\ UNCHANGED <<paycodes, return_code, input, pos, current_clsch,
                   person_uchrabvr, index_by_key, processed_vidops,
                   SQL_update_queries, i, caller, log, groups, exit_code,
                   duplicate_codes,
                   sumVars, mountVars, uderVars, findVars>>

\* the stream has ended: processing_person for the tail
EndOfStream ==
    /\ pc = "loop"
    /\ pos = Len(input)
    /\ IF person_uchrabvr = << >>
       THEN pc' = "done" /\ caller' = caller
       ELSE pc' = "index" /\ caller' = "tail"
    /\ UNCHANGED <<paycodes, return_code, input, pos, current_clsch,
                   person_uchrabvr, index_by_key, processed_vidops,
                   SQL_update_queries, i, log, groups, exit_code, duplicate_codes,
                   sumVars, mountVars, uderVars, findVars>>

\* a plausible slip: the working set is not cleared, the held row is appended to it
AfterPersonKeepsRows ==
    /\ pc = "return"
    /\ IF caller = "loop"
       THEN /\ current_clsch' = StreamRow(pos).clsch
            /\ person_uchrabvr' = Append(person_uchrabvr, StreamRow(pos))
            /\ pc' = "loop"
       ELSE /\ pc' = "done"
            /\ UNCHANGED <<current_clsch, person_uchrabvr>>
    /\ caller' = "none"
    /\ UNCHANGED <<paycodes, return_code, input, pos, index_by_key,
                   processed_vidops, SQL_update_queries, i, log, groups, exit_code,
                   duplicate_codes,
                   sumVars, mountVars, uderVars, findVars>>

\* processing_person has returned: the loop takes the held row, or start() returns
AfterPerson ==
    /\ pc = "return"
    /\ IF caller = "loop"
       THEN /\ current_clsch' = StreamRow(pos).clsch
            /\ person_uchrabvr' = <<StreamRow(pos)>>
            /\ pc' = "loop"
       ELSE /\ pc' = "done"
            /\ UNCHANGED <<current_clsch, person_uchrabvr>>
    /\ caller' = "none"
    /\ UNCHANGED <<paycodes, return_code, input, pos, index_by_key,
                   processed_vidops, SQL_update_queries, i, log, groups, exit_code,
                   duplicate_codes,
                   sumVars, mountVars, uderVars, findVars>>

(***************************************************************************)
(* processing_person(): index, resolution, emission, coverage              *)
(***************************************************************************)
KeyOf(row) == <<row.vidop, row.datan, row.datok>>

\* a plausible slip: the position is assigned to the key, not appended to its list
BuildIndexLastOnly(person) ==
    [key \in {KeyOf(person[k]) : k \in DOMAIN person} |->
        <<CHOOSE k \in DOMAIN person :
              /\ KeyOf(person[k]) = key
              /\ \A m \in DOMAIN person : KeyOf(person[m]) = key => m <= k>>]

\* create_index_by_key: key -> positions of the group with that key, ascending
BuildIndex(person) ==
    [key \in {KeyOf(person[k]) : k \in DOMAIN person} |->
        SelectSeqIdx(Len(person), {k \in DOMAIN person : KeyOf(person[k]) = key})]

\* dict.get(key, [])
IndexGet(index, key) == IF key \in DOMAIN index THEN index[key] ELSE << >>

CreateIndexByKey ==
    /\ pc = "index"
    /\ index_by_key' = BuildIndex(person_uchrabvr)
    /\ groups' = Append(groups, person_uchrabvr)
    /\ pc' = "vidops"
    /\ UNCHANGED <<paycodes, return_code, input, pos, current_clsch,
                   person_uchrabvr, processed_vidops, SQL_update_queries, i,
                   caller, log, exit_code, duplicate_codes,
                   sumVars, mountVars, uderVars, findVars>>

\* a plausible slip: the codes matched for the employee before stay in the set
ProcessingVidopsKeepsCodes ==
    /\ pc = "vidops"
    /\ i' = 1
    /\ pc' = "resolve"
    /\ UNCHANGED <<paycodes, return_code, input, pos, current_clsch,
                   person_uchrabvr, index_by_key, processed_vidops,
                   SQL_update_queries, caller, log, groups, exit_code,
                   duplicate_codes,
                   sumVars, mountVars, uderVars, findVars>>

\* processing_vidops: processed_vidops.clear(), then the loop starts
ProcessingVidops ==
    /\ pc = "vidops"
    /\ processed_vidops' = {}
    /\ i' = 1
    /\ pc' = "resolve"
    /\ UNCHANGED <<paycodes, return_code, input, pos, current_clsch,
                   person_uchrabvr, index_by_key, SQL_update_queries, caller,
                   log, groups, exit_code, duplicate_codes,
                   sumVars, mountVars, uderVars, findVars>>

\* a plausible slip: the code is looked for in the primary side of the mappings
FirstMappingOnPrimary(table, vidop) ==
    LET hits == {k \in DOMAIN table : CodeIn(vidop, table[k].primary)}
    IN  IF hits = {} THEN 0 ELSE CHOOSE k \in hits : \A m \in hits : k <= m

\* the first mapping, in table order, whose secondary side holds the code; 0: none
FirstMapping(table, vidop) ==
    LET hits == {k \in DOMAIN table : CodeIn(vidop, table[k].secondary)}
    IN  IF hits = {} THEN 0 ELSE CHOOSE k \in hits : \A m \in hits : k <= m

\* a plausible slip: only the first primary code of the mapping is looked up
FindFirstCodeOnly(index, primary_vidops, datan, datok) ==
    IndexGet(index, <<normalize_tuple_str(primary_vidops)[1], datan, datok>>)

\* find_uchrabvr: for each primary code in turn, the positions the index lists
find_uchrabvr(index, primary_vidops, datan, datok) ==
    LET pv == normalize_tuple_str(primary_vidops)
    IN  Flatten([k \in DOMAIN pv |-> IndexGet(index, <<pv[k], datan, datok>>)])

\* prepare_string: the arguments of the message
prepare_string(row, main_vidop) ==
    <<row.vidop, row.datan, row.datok, normalize_tuple_str(main_vidop)>>

\* the row the loop of processing_vidops is at, its mapping and its candidates
CurRow == person_uchrabvr[i]
CurMap == FirstMapping(paycodes, CurRow.vidop)
CurNums == find_uchrabvr(index_by_key, paycodes[CurMap].primary,
                         CurRow.datan, CurRow.datok)

InResolve == pc = "resolve" /\ i <= Len(person_uchrabvr)

\* the row's code is no secondary code: nothing is done for it
ResolveSkip ==
    /\ InResolve
    /\ CurMap = 0
    /\ i' = i + 1
    /\ UNCHANGED <<pc, paycodes, return_code, input, pos, current_clsch,
                   person_uchrabvr, index_by_key, processed_vidops,
                   SQL_update_queries, caller, log, groups, exit_code, duplicate_codes,
                   sumVars, mountVars, uderVars, findVars>>

\* a plausible slip: the missing primary is logged but the run is not marked
ResolveNoPrimaryUnmarked ==
    /\ InResolve
    /\ CurMap # 0
    /\ Len(CurNums) = 0
    /\ log' = Append(log, Diag("NoPrimaryFound", CurRow.tabn,
                               prepare_string(CurRow, paycodes[CurMap].primary)))
    /\ i' = i + 1
    /\ UNCHANGED <<pc, paycodes, return_code, input, pos, current_clsch,
                   person_uchrabvr, index_by_key, processed_vidops,
                   SQL_update_queries, caller, groups, exit_code, duplicate_codes,
                   sumVars, mountVars, uderVars, findVars>>

\* a plausible slip: after a missing primary the rest of the group is given up
ResolveNoPrimaryStops ==
    /\ InResolve
    /\ CurMap # 0
    /\ Len(CurNums) = 0
    /\ log' = Append(log, Diag("NoPrimaryFound", CurRow.tabn,
                               prepare_string(CurRow, paycodes[CurMap].primary)))
    /\ return_code' = 1
    /\ pc' = "cover"
    /\ UNCHANGED <<paycodes, input, pos, current_clsch, person_uchrabvr,
                   index_by_key, processed_vidops, SQL_update_queries, i, caller,
                   groups, exit_code, duplicate_codes,
                   sumVars, mountVars, uderVars, findVars>>

\* update_uchrabvr, no candidate
ResolveNoPrimary ==
    /\ InResolve
    /\ CurMap # 0
    /\ Len(CurNums) = 0
    /\ log' = Append(log, Diag("NoPrimaryFound", CurRow.tabn,
                               prepare_string(CurRow, paycodes[CurMap].primary)))
    /\ return_code' = 1
    /\ i' = i + 1
    /\ UNCHANGED <<pc, paycodes, input, pos, current_clsch, person_uchrabvr,
                   index_by_key, processed_vidops, SQL_update_queries, caller,
                   groups, exit_code, duplicate_codes,
                   sumVars, mountVars, uderVars, findVars>>

\* update_uchrabvr, several candidates
ResolveAmbiguous ==
    /\ InResolve
    /\ CurMap # 0
    /\ Len(CurNums) > 1
    /\ log' = Append(log, Diag("AmbiguousPrimary", CurRow.tabn,
                               prepare_string(CurRow, paycodes[CurMap].primary)))
    /\ return_code' = 1
    /\ i' = i + 1
    /\ UNCHANGED <<pc, paycodes, input, pos, current_clsch, person_uchrabvr,
                   index_by_key, processed_vidops, SQL_update_queries, caller,
                   groups, exit_code, duplicate_codes,
                   sumVars, mountVars, uderVars, findVars>>

\* a plausible slip: the secondary row's summa is added instead of its summaval
UpdatedSummaOfSumma(person, num, secondary) ==
    sum_str(person[num].summa, secondary.summa)

\* update_primary_uchrabvr: the sum of the row at position num after the update
UpdatedSumma(person, num, secondary) ==
    sum_str(person[num].summa, secondary.summaval)

\* a plausible slip: the new sum is stored in the secondary row as well
ResolveUpdateAlsoSecondary ==
    /\ InResolve
    /\ CurMap # 0
    /\ Len(CurNums) = 1
    /\ ~SumStrFails(person_uchrabvr[CurNums[1]].summa, CurRow.summaval)
    /\ processed_vidops' =
          processed_vidops \cup {person_uchrabvr[CurNums[1]].vidop, CurRow.vidop}
    /\ person_uchrabvr' =
          [person_uchrabvr EXCEPT
              ![CurNums[1]].summa = UpdatedSumma(person_uchrabvr, CurNums[1], CurRow),
              ![i].summa = UpdatedSumma(person_uchrabvr, CurNums[1], CurRow)]
    /\ i' = i + 1
    /\ UNCHANGED <<pc, paycodes, return_code, input, pos, current_clsch,
                   index_by_key, SQL_update_queries, caller, log, groups, exit_code,
                   duplicate_codes,
                   sumVars, mountVars, uderVars, findVars>>

\* a plausible slip: the copy is made of the secondary row, not of the primary row
ResolveUpdateCopiesSecondary ==
    /\ InResolve
    /\ CurMap # 0
    /\ Len(CurNums) = 1
    /\ ~SumStrFails(person_uchrabvr[CurNums[1]].summa, CurRow.summaval)
    /\ processed_vidops' =
          processed_vidops \cup {person_uchrabvr[CurNums[1]].vidop, CurRow.vidop}
    /\ person_uchrabvr' =
          [person_uchrabvr EXCEPT
              ![CurNums[1]] =
                  [CurRow EXCEPT
                      !.summa = UpdatedSumma(person_uchrabvr, CurNums[1], CurRow)]]
    /\ i' = i + 1
    /\ UNCHANGED <<pc, paycodes, return_code, input, pos, current_clsch,
                   index_by_key, SQL_update_queries, caller, log, groups, exit_code,
                   duplicate_codes,
                   sumVars, mountVars, uderVars, findVars>>

\* update_uchrabvr, one candidate, the sum is computed
ResolveUpdate ==
    /\ InResolve
    /\ CurMap # 0
    /\ Len(CurNums) = 1
    /\ ~SumStrFails(person_uchrabvr[CurNums[1]].summa, CurRow.summaval)
    /\ processed_vidops' =
          processed_vidops \cup {person_uchrabvr[CurNums[1]].vidop, CurRow.vidop}
    /\ person_uchrabvr' =
          [person_uchrabvr EXCEPT
              ![CurNums[1]].summa = UpdatedSumma(person_uchrabvr, CurNums[1], CurRow)]
    /\ i' = i + 1
    /\ UNCHANGED <<pc, paycodes, return_code, input, pos, current_clsch,
                   index_by_key, SQL_update_queries, caller, log, groups, exit_code,
                   duplicate_codes,
                   sumVars, mountVars, uderVars, findVars>>

\* the statement create_SQL_request formats for a row
Statement(row) ==
    <<"UPDATE uchrabvr WHERE nrec=", row.nrec, " SET summa:=", row.summa, ";">>

\* a plausible slip: a statement for every row of the group
GroupStatementsAll(person) == [k \in DOMAIN person |-> Statement(person[k])]

\* the statements of a group: one for each row whose summa is not ZERO, in order
GroupStatements(person) ==
    LET keep == SelectSeqIdx(Len(person), {k \in DOMAIN person : person[k].summa # ZERO})
    IN  [k \in DOMAIN keep |-> Statement(person[keep[k]])]

\* a plausible slip: the statements of the rows updated so far are written before
\* the ValueError leaves the group
ResolveBadSumEmits ==
    /\ InResolve
    /\ CurMap # 0
    /\ Len(CurNums) = 1
    /\ SumStrFails(person_uchrabvr[CurNums[1]].summa, CurRow.summaval)
    /\ processed_vidops' =
          processed_vidops \cup {person_uchrabvr[CurNums[1]].vidop, CurRow.vidop}
    /\ log' = Append(log, Diag("SumNotNumeric", CurRow.tabn,
                               <<person_uchrabvr[CurNums[1]].vidop,
                                 person_uchrabvr[CurNums[1]].summa,
                                 CurRow.summaval>>))
    /\ SQL_update_queries' = SQL_update_queries \o GroupStatements(person_uchrabvr)
    /\ pc' = "aborted"
    /\ UNCHANGED <<paycodes, return_code, input, pos, current_clsch,
                   person_uchrabvr, index_by_key, i, caller,
                   groups, exit_code, duplicate_codes,
                   sumVars, mountVars, uderVars, findVars>>

\* a plausible slip: the ValueError is logged and swallowed, the loop goes on
ResolveBadSumSwallowed ==
    /\ InResolve
    /\ CurMap # 0
    /\ Len(CurNums) = 1
    /\ SumStrFails(person_uchrabvr[CurNums[1]].summa, CurRow.summaval)
    /\ processed_vidops' =
          processed_vidops \cup {person_uchrabvr[CurNums[1]].vidop, CurRow.vidop}
    /\ log' = Append(log, Diag("SumNotNumeric", CurRow.tabn,
                               <<person_uchrabvr[CurNums[1]].vidop,
                                 person_uchrabvr[CurNums[1]].summa,
                                 CurRow.summaval>>))
    /\ i' = i + 1
    /\ UNCHANGED <<pc, paycodes, return_code, input, pos, current_clsch,
                   person_uchrabvr, index_by_key, SQL_update_queries, caller,
                   groups, exit_code, duplicate_codes,
                   sumVars, mountVars, uderVars, findVars>>

\* update_uchrabvr, one candidate, sum_str raises: logged and re-raised out of start()
ResolveBadSum ==
    /\ InResolve
    /\ CurMap # 0
    /\ Len(CurNums) = 1
    /\ SumStrFails(person_uchrabvr[CurNums[1]].summa, CurRow.summaval)
    /\ processed_vidops' =
          processed_vidops \cup {person_uchrabvr[CurNums[1]].vidop, CurRow.vidop}
    /\ log' = Append(log, Diag("SumNotNumeric", CurRow.tabn,
                               <<person_uchrabvr[CurNums[1]].vidop,
                                 person_uchrabvr[CurNums[1]].summa,
                                 CurRow.summaval>>))
    /\ pc' = "aborted"
    /\ UNCHANGED <<paycodes, return_code, input, pos, current_clsch,
                   person_uchrabvr, index_by_key, SQL_update_queries, i, caller,
                   groups, exit_code, duplicate_codes,
                   sumVars, mountVars, uderVars, findVars>>

\* a plausible slip: the list is set to the statements of the group at hand
CreateSQLRequestReplaces ==
    /\ pc = "resolve"
    /\ i > Len(person_uchrabvr)
    /\ SQL_update_queries' = GroupStatements(person_uchrabvr)
    /\ pc' = "cover"
    /\ UNCHANGED <<paycodes, return_code, input, pos, current_clsch,
                   person_uchrabvr, index_by_key, processed_vidops, i, caller, log,
                   groups, exit_code, duplicate_codes,
                   sumVars, mountVars, uderVars, findVars>>

\* create_SQL_request, once the loop of processing_vidops has ended
CreateSQLRequest ==
    /\ pc = "resolve"
    /\ i > Len(person_uchrabvr)
    /\ SQL_update_queries' = SQL_update_queries \o GroupStatements(person_uchrabvr)
    /\ pc' = "cover"
    /\ UNCHANGED <<paycodes, return_code, input, pos, current_clsch,
                   person_uchrabvr, index_by_key, processed_vidops, i, caller, log,
                   groups, exit_code, duplicate_codes,
                   sumVars, mountVars, uderVars, findVars>>

\* the code table has a rule for the code: it is a primary or a secondary code
\* of some mapping
HasRule(vidop) ==
    \E m \in DOMAIN paycodes :
        vidop \in Range(normalize_tuple_str(paycodes[m].primary))
                  \cup Range(normalize_tuple_str(paycodes[m].secondary))

\* a plausible slip: only the rows whose code has no rule are reported
UncoveredRowsNoRule(person, processed) ==
    SelectSeqIdx(Len(person), {k \in DOMAIN person : ~HasRule(person[k].vidop)})

\* a plausible slip: "in" for "not in"
UncoveredRowsInverted(person, processed) ==
    SelectSeqIdx(Len(person), {k \in DOMAIN person : person[k].vidop \in processed})

\* positions of the rows whose code is not in processed, ascending
UncoveredRows(person, processed) ==
    SelectSeqIdx(Len(person), {k \in DOMAIN person : person[k].vidop \notin processed})

\* the two messages control_processing_completion logs for an uncovered row
UncoveredDiags(row) ==
    << Diag("UncoveredService", "-----", <<row.vidop>>),
       Diag("Uncovered", row.tabn, <<row.vidop>>) >>

\* a plausible slip: a group without uncovered rows sets return_code to 0
ControlProcessingCompletionResets ==
    /\ pc = "cover"
    /\ LET unc == UncoveredRows(person_uchrabvr, processed_vidops)
       IN  /\ log' = log \o Flatten([k \in DOMAIN unc |->
                                        UncoveredDiags(person_uchrabvr[unc[k]])])
           /\ return_code' = IF unc = << >> THEN 0 ELSE 1
    /\ pc' = "return"
    /\ UNCHANGED <<paycodes, input, pos, current_clsch, person_uchrabvr,
                   index_by_key, processed_vidops, SQL_update_queries, i, caller,
                   groups, exit_code, duplicate_codes,
                   sumVars, mountVars, uderVars, findVars>>

\* control_processing_completion
ControlProcessingCompletion ==
    /\ pc = "cover"
    /\ LET unc == UncoveredRows(person_uchrabvr, processed_vidops)
       IN  /\ log' = log \o Flatten([k \in DOMAIN unc |->
                                        UncoveredDiags(person_uchrabvr[unc[k]])])
           /\ return_code' = IF unc = << >> THEN return_code ELSE 1
    /\ pc' = "return"
    /\ UNCHANGED <<paycodes, input, pos, current_clsch, person_uchrabvr,
                   index_by_key, processed_vidops, SQL_update_queries, i, caller,
                   groups, exit_code, duplicate_codes,
                   sumVars, mountVars, uderVars, findVars>>

(***************************************************************************)
(* run_once: the ValueError of start() is caught and 1 is returned         *)
(***************************************************************************)
\* a plausible slip: the object's return_code is returned on this path too
RunOnceReturnsAttribute ==
    /\ pc = "aborted"
    /\ exit_code' = return_code
    /\ pc' = "exited"
    /\ UNCHANGED <<paycodes, return_code, input, pos, current_clsch,
                   person_uchrabvr, index_by_key, processed_vidops,
                   SQL_update_queries, i, caller, log, groups, duplicate_codes,
                   sumVars, mountVars, uderVars, findVars>>

RunOnceValueError ==
    /\ pc = "aborted"
    /\ exit_code' = 1
    /\ pc' = "exited"
    /\ UNCHANGED <<paycodes, return_code, input, pos, current_clsch,
                   person_uchrabvr, index_by_key, processed_vidops,
                   SQL_update_queries, i, caller, log, groups, duplicate_codes,
                   sumVars, mountVars, uderVars, findVars>>

Next ==
    \/ Construct
    \/ ConstructFails
    \/ Start
    \/ ReadSame
    \/ ReadFirst
    \/ ReadChange
    \/ EndOfStream
    \/ AfterPerson
    \/ CreateIndexByKey
    \/ ProcessingVidops
    \/ ResolveSkip
    \/ ResolveNoPrimary
    \/ ResolveAmbiguous
    \/ ResolveUpdate
    \/ ResolveBadSum
    \/ CreateSQLRequest
    \/ ControlProcessingCompletion
    \/ RunOnceValueError

Spec == Init /\ [][Next]_vars

(***************************************************************************)
(* validate_unique_secondary_codes called on a table of its own, as the    *)
(* tests call it: the tables of at most MaxMappings mappings.              *)
(***************************************************************************)
MappingChoices ==
    { PrimarySecondaryCodes(Tup(<<"18">>), Tup(<<"305", "306">>)),
      PrimarySecondaryCodes(Tup(<<"20">>), Tup(<<"315", "316">>)),
      PrimarySecondaryCodes(Tup(<<"54">>), Tup(<<"305">>)),
      PrimarySecondaryCodes(Str("18"), Tup(<<"307">>)) }

SmallTables == UNION { [1..n -> MappingChoices] : n \in 0..MaxMappings }

InitValidate ==
    /\ pc = "validate"
    /\ paycodes \in SmallTables
    /\ return_code = 0
    /\ input = << >>
    /\ pos = 0
    /\ current_clsch = START_CLSCH
    /\ person_uchrabvr = << >>
    /\ index_by_key = << >>
    /\ processed_vidops = {}
    /\ SQL_update_queries = << >>
    /\ i = 1
    /\ caller = "none"
    /\ log = << >>
    /\ groups = << >>
    /\ exit_code = -1
    /\ duplicate_codes = << >>
    /\ SumIdle
    /\ MountIdle
    /\ UderIdle
    /\ FindIdle

ValidateCall ==
    /\ pc = "validate"
    /\ duplicate_codes' = validate_unique_secondary_codes(paycodes)
    /\ pc' = "validated"
    /\ UNCHANGED <<paycodes, return_code, input, pos, current_clsch,
                   person_uchrabvr, index_by_key, processed_vidops,
                   SQL_update_queries, i, caller, log, groups, exit_code,
                   sumVars, mountVars, uderVars, findVars>>

NextValidate == ValidateCall

SpecValidate == InitValidate /\ [][NextValidate]_vars


(***************************************************************************)
(* Common.sum_str called on two values of its own, as the tests call it.   *)
(* Besides the numerals of ParseDecimal, decimal.Decimal reads the special *)
(* values NaN and Infinity, with an optional sign.                         *)
(***************************************************************************)
NaNText == <<"N", "a", "N">>

InfinityText == <<"I", "n", "f", "i", "n", "i", "t", "y">>

Unsigned(s) == IF Len(s) > 0 /\ s[1] \in {"-", "+"} THEN Tail(s) ELSE s

IsNegative(s) == Len(s) > 0 /\ s[1] = "-"

IsNaN(s) == Unsigned(s) = NaNText

IsInfinity(s) == Unsigned(s) = InfinityText

\* Decimal(s) does not raise InvalidOperation (ConversionSyntax)
DecimalReads(s) == ParseDecimal(s).ok \/ IsNaN(s) \/ IsInfinity(s)

\* str() of a NaN: its sign is kept
NaNStr(s) == (IF IsNegative(s) THEN <<"-">> ELSE << >>) \o NaNText

\* Common.sum_str as a call: the isinstance test, Decimal(s1) + Decimal(s2) inside
\* the try, quantize and str outside it
SumStrCall(a, b) ==
    IF a.type # "str" \/ b.type # "str" THEN Raised("ValueError")
    ELSE IF ~DecimalReads(a.val) \/ ~DecimalReads(b.val) THEN Raised("ValueError")
    \* a NaN operand is the sum, the first one when both are; quantize keeps it
    ELSE IF IsNaN(a.val) THEN Returned(NaNStr(a.val))
    ELSE IF IsNaN(b.val) THEN Returned(NaNStr(b.val))
    \* Infinity + -Infinity: InvalidOperation of the addition, inside the try
    ELSE IF /\ IsInfinity(a.val) /\ IsInfinity(b.val)
            /\ IsNegative(a.val) # IsNegative(b.val)
         THEN Raised("ValueError")
    \* an infinite sum: InvalidOperation of quantize, outside the try
    ELSE IF IsInfinity(a.val) \/ IsInfinity(b.val) THEN Raised("InvalidOperation")
    ELSE Returned(sum_str(a.val, b.val))

\* the strings handed to sum_str: sign, integer digits, fraction
SumSigns == {<< >>, <<"-">>}

SumIntegers == {<< >>, <<"0">>, <<"5">>, <<"7">>}

SumFractions ==
    { << >>, <<".">>, <<".", "5">>, <<".", "0", "0", "5">>, <<".", "0", "1", "5">>,
      <<".", "3", "2", "1">>, <<".", "6", "1", "7">>, <<".", "t">> }

SumStrings ==
    { sg \o ip \o fp : sg \in SumSigns, ip \in SumIntegers, fp \in SumFractions }
    \cup { <<"3">> \o <<".", "6", "1", "7">>, <<"-", "3">> \o <<".", "6", "1", "7">>,
           <<"1">>, <<"1", ".", "0", "0">>, <<"a", "b", "c">>,
           NaNText, InfinityText, <<"-">> \o InfinityText }

\* the values handed to sum_str: the strings, and the int 1
SumOperands == { PyStr(s) : s \in SumStrings } \cup { PyInt(<<"1">>) }

InitSum ==
    /\ pc = "sum"
    /\ s1 \in SumOperands
    /\ s2 \in SumOperands
    /\ sum_result = Returned(<< >>)
    /\ UchrabvrIdle
    /\ MountIdle
    /\ UderIdle
    /\ FindIdle

SumCall ==
    /\ pc = "sum"
    /\ sum_result' = SumStrCall(s1, s2)
    /\ pc' = "summed"
    /\ UNCHANGED <<s1, s2, uchrabvrVars, mountVars, uderVars, findVars>>

NextSum == SumCall

SpecSum == InitSum /\ [][NextSum]_vars


(***************************************************************************)
(* Uder.normalize_mount called on a string of its own, as the tests call   *)
(* it, and once more on its result.  A month is a sequence of characters.  *)
(***************************************************************************)
\* longest string handed to normalize_mount
MaxMountLen == 4

\* a plausible slip: a single character is padded on the right
NormalizeMountPadRight(m) ==
    IF Len(m) = 0 THEN <<"0", "0">>
    ELSE IF Len(m) = 1 THEN SubSeq(m \o <<"0">>, 1, 2)
    ELSE SubSeq(m, 1, 2)

\* Uder.normalize_mount
normalize_mount(m) ==
    IF Len(m) = 0 THEN <<"0", "0">>
    ELSE IF Len(m) = 1 THEN SubSeq(<<"0">> \o m, 1, 2)
    ELSE SubSeq(m, 1, 2)

MountChars == {"0", "1", "2", "7", "X"}

MountStrings == UNION { [1..n -> MountChars] : n \in 0..MaxMountLen }

InitMount ==
    /\ pc = "mount"
    /\ mount \in MountStrings
    /\ mount_result = << >>
    /\ mount_again = << >>
    /\ UchrabvrIdle
    /\ SumIdle
    /\ UderIdle
    /\ FindIdle

NormalizeMount ==
    /\ pc = "mount"
    /\ mount_result' = normalize_mount(mount)
    /\ pc' = "mounted"
    /\ UNCHANGED <<mount, mount_again, uchrabvrVars, sumVars, uderVars, findVars>>

NormalizeMountAgain ==
    /\ pc = "mounted"
    /\ mount_again' = normalize_mount(mount_result)
    /\ pc' = "mounted_again"
    /\ UNCHANGED <<mount, mount_result, uchrabvrVars, sumVars, uderVars, findVars>>

NextMount == NormalizeMount \/ NormalizeMountAgain

SpecMount == InitMount /\ [][NextMount]_vars


(***************************************************************************)
(* Uder: the check of the tax withholdings by month (src/SRC/uder.py).     *)
(* None is the empty sequence, a value v that may be None is <<v>>.        *)
(***************************************************************************)
\* longest UDER.txt read by Uder.start
MaxUders == 3

VIDOPS_OF_TAX == <<"13", "182">>

\* UderStructure without datav and vidoplud, which the program never reads
UderStructure(nrec, tabn, mes, vidud, sumud, clsch) ==
    [nrec |-> nrec, tabn |-> tabn, mes |-> mes, vidud |-> vidud, sumud |-> sumud,
     clsch |-> clsch]

\* UderGrouped(**asdict(uder), group_vidud=group_key)
UderGrouped(uder, group_key) ==
    [nrec |-> uder.nrec, tabn |-> uder.tabn, mes |-> uder.mes, vidud |-> uder.vidud,
     sumud |-> uder.sumud, clsch |-> uder.clsch, group_vidud |-> group_key]

\* the characters of the months of the model, in the order of their code points
CharOrder == <<"0", "1", "2", "3", "4", "5", "6", "7", "8", "9", "X">>

CharRank(c) == CHOOSE k \in DOMAIN CharOrder : CharOrder[k] = c

\* a < b on str: the first differing character decides, a proper prefix is less
RECURSIVE StrLess(_, _)
StrLess(a, b) ==
    IF b = << >> THEN FALSE
    ELSE IF a = << >> THEN TRUE
    ELSE IF Head(a) # Head(b) THEN CharRank(Head(a)) < CharRank(Head(b))
    ELSE StrLess(Tail(a), Tail(b))

\* Uder.create_group_key: None, or the normalized month
create_group_key(uder, last_mount) ==
    LET normalized == normalize_mount(uder.mes)
    IN  IF uder.vidud \notin Range(VIDOPS_OF_TAX) \/ StrLess(last_mount, normalized)
        THEN << >>
        ELSE <<normalized>>

\* a plausible slip: the row is put before the rows of its own month
InsertBeforeEqual(sorted, row) ==
    LET less == {k \in DOMAIN sorted : StrLess(sorted[k].group_vidud, row.group_vidud)}
    IN  SubSeq(sorted, 1, Cardinality(less)) \o <<row>>
        \o SubSeq(sorted, Cardinality(less) + 1, Len(sorted))

\* list.sort(key=group_vidud) is stable: a row comes after the rows sorted so far
\* whose month is not greater
InsertSorted(sorted, row) ==
    LET notGreater ==
            {k \in DOMAIN sorted : ~StrLess(row.group_vidud, sorted[k].group_vidud)}
    IN  SubSeq(sorted, 1, Cardinality(notGreater)) \o <<row>>
        \o SubSeq(sorted, Cardinality(notGreater) + 1, Len(sorted))

RECURSIVE StableSort(_)
StableSort(rows) ==
    IF rows = << >> THEN << >>
    ELSE InsertSorted(StableSort(SubSeq(rows, 1, Len(rows) - 1)), rows[Len(rows)])

\* Uder.filter_sort_by_group
filter_sort_by_group(person, last_mount) ==
    LET keep == SelectSeqIdx(Len(person),
                    {k \in DOMAIN person : create_group_key(person[k], last_mount) # << >>})
    IN  StableSort([k \in DOMAIN keep |->
                      UderGrouped(person[keep[k]],
                                  create_group_key(person[keep[k]], last_mount)[1])])

\* the line check_summa hands to logging.info: tab number, month, difference
InfoLine(tabn, mount_, summa_) == [tabn |-> tabn, mount |-> mount_, summa |-> summa_]

\* Uder.check_summa: the lines it adds to the log
check_summa(summa_, uder) ==
    IF summa_ # <<"0", ".", "0", "0">>
    THEN <<InfoLine(uder.tabn, uder.group_vidud, summa_)>>
    ELSE << >>

S_999   == <<"9", "9", "9", ".", "0", "0">>
S_2     == <<"2", ".", "0", "0">>
S_3t    == <<"3", ".", "t">>

\* the rows UDER.txt is made of; nrec is given by the row's place in the file
UderChoices ==
    { UderStructure("", "001", <<"5">>,      "13",  S_100,  "A"),
      UderStructure("", "001", <<"0", "5">>, "13",  S_m90,  "A"),
      UderStructure("", "001", <<"0", "5">>, "182", S_m100, "A"),
      UderStructure("", "001", <<"7">>,      "13",  S_999,  "A"),
      UderStructure("", "001", <<"6">>,      "13",  S_2,    "A"),
      UderStructure("", "001", <<"4">>,      "182", S_2,    "A"),
      UderStructure("", "001", <<"5">>,      "999", S_100,  "A"),
      UderStructure("", "001", <<"4">>,      "13",  S_3t,   "A"),
      UderStructure("", "002", <<"5">>,      "13",  S_100,  "B"),
      UderStructure("", "002", << >>,        "999", S_2,    "B") }

UderInputs ==
    UNION { { [k \in 1..n |-> [f[k] EXCEPT !.nrec = Nrecs[k]]] :
              f \in [1..n -> UderChoices] } : n \in 0..MaxUders }

\* the values of the parameter last_mount: the default and a later month
LastMounts == {<<"6">>, <<"1", "2">>}

InitUder ==
    /\ pc = "uder_new"
    /\ UderIdle
    /\ UchrabvrIdle
    /\ SumIdle
    /\ MountIdle
    /\ FindIdle

\* Uder.__init__: _normalize_data
UderConstruct ==
    /\ pc = "uder_new"
    /\ \E last_mount \in LastMounts :
          normalize_last_mount' = normalize_mount(last_mount)
    /\ person_uders' = << >>
    /\ pc' = "uder_ready"
    /\ UNCHANGED <<all_uders, uder_pos, uder_clsch, filtered_uders, i_uder,
                   current_group, summa, info_log, uder_caller,
                   uchrabvrVars, sumVars, mountVars, findVars>>

\* Uder.start before the loop: the stream is opened, current_clsch = None
UderStart ==
    /\ pc = "uder_ready"
    /\ \E rows \in UderInputs : all_uders' = rows
    /\ uder_pos' = 0
    /\ uder_clsch' = << >>
    /\ pc' = "uder_loop"
    /\ UNCHANGED <<person_uders, normalize_last_mount, filtered_uders, i_uder,
                   current_group, summa, info_log, uder_caller,
                   uchrabvrVars, sumVars, mountVars, findVars>>

\* the first row, or a row of the same employee: appended to person_uders
UderReadSame ==
    /\ pc = "uder_loop"
    /\ uder_pos < Len(all_uders)
    /\ uder_clsch \in {<< >>, <<all_uders[uder_pos + 1].clsch>>}
    /\ uder_clsch' = <<all_uders[uder_pos + 1].clsch>>
    /\ person_uders' = Append(person_uders, all_uders[uder_pos + 1])
    /\ uder_pos' = uder_pos + 1
    /\ UNCHANGED <<pc, all_uders, normalize_last_mount, filtered_uders, i_uder,
                   current_group, summa, info_log, uder_caller,
                   uchrabvrVars, sumVars, mountVars, findVars>>

\* a row of another employee: processing_person is entered for person_uders
UderReadChange ==
    /\ pc = "uder_loop"
    /\ uder_pos < Len(all_uders)
    /\ uder_clsch \notin {<< >>, <<all_uders[uder_pos + 1].clsch>>}
    /\ uder_pos' = uder_pos + 1
    /\ uder_caller' = "loop"
    /\ pc' = "uder_filter"
    /\ UNCHANGED <<all_uders, uder_clsch, person_uders, normalize_last_mount,
                   filtered_uders, i_uder, current_group, summa, info_log,
                   uchrabvrVars, sumVars, mountVars, findVars>>

\* the stream has ended: processing_person is entered for the tail, empty or not
UderEndOfStream ==
    /\ pc = "uder_loop"
    /\ uder_pos = Len(all_uders)
    /\ uder_caller' = "tail"
    /\ pc' = "uder_filter"
    /\ UNCHANGED <<all_uders, uder_pos, uder_clsch, person_uders,
                   normalize_last_mount, filtered_uders, i_uder, current_group,
                   summa, info_log, uchrabvrVars, sumVars, mountVars, findVars>>

\* processing_person: filter_sort_by_group, then validate_person_groups begins
UderFilterSort ==
    /\ pc = "uder_filter"
    /\ filtered_uders' = filter_sort_by_group(person_uders, normalize_last_mount)
    /\ current_group' = << >>
    /\ summa' = <<"0", ".", "0", "0">>
    /\ i_uder' = 1
    /\ pc' = "uder_validate"
    /\ UNCHANGED <<all_uders, uder_pos, uder_clsch, person_uders,
                   normalize_last_mount, info_log, uder_caller,
                   uchrabvrVars, sumVars, mountVars, findVars>>

\* the row the loop of validate_person_groups is at; whether its month differs
\* from the current one; the running sum its amount is added to
CurUder == filtered_uders[i_uder]
MonthChanges == current_group \notin {<< >>, <<CurUder.group_vidud>>}
RunningSum == IF MonthChanges THEN <<"0", ".", "0", "0">> ELSE summa

\* one turn of the loop of validate_person_groups
UderValidateStep ==
    /\ pc = "uder_validate"
    /\ i_uder <= Len(filtered_uders)
    /\ ~SumStrFails(RunningSum, CurUder.sumud)
    /\ info_log' = IF MonthChanges
                   THEN info_log \o check_summa(summa, filtered_uders[i_uder - 1])
                   ELSE info_log
    /\ current_group' = <<CurUder.group_vidud>>
    /\ summa' = sum_str(RunningSum, CurUder.sumud)
    /\ i_uder' = i_uder + 1
    /\ UNCHANGED <<pc, all_uders, uder_pos, uder_clsch, person_uders,
                   normalize_last_mount, filtered_uders, uder_caller,
                   uchrabvrVars, sumVars, mountVars, findVars>>

\* one turn of the loop in which sum_str raises ValueError: it leaves start()
UderBadSum ==
    /\ pc = "uder_validate"
    /\ i_uder <= Len(filtered_uders)
    /\ SumStrFails(RunningSum, CurUder.sumud)
    /\ info_log' = IF MonthChanges
                   THEN info_log \o check_summa(summa, filtered_uders[i_uder - 1])
                   ELSE info_log
    /\ current_group' = <<CurUder.group_vidud>>
    /\ summa' = RunningSum
    /\ pc' = "uder_aborted"
    /\ UNCHANGED <<all_uders, uder_pos, uder_clsch, person_uders,
                   normalize_last_mount, filtered_uders, i_uder, uder_caller,
                   uchrabvrVars, sumVars, mountVars, findVars>>

\* a plausible slip: the sum of the last month is not checked
UderValidateEndNoCheck ==
    /\ pc = "uder_validate"
    /\ i_uder > Len(filtered_uders)
    /\ pc' = "uder_return"
    /\ UNCHANGED <<all_uders, uder_pos, uder_clsch, person_uders,
                   normalize_last_mount, filtered_uders, i_uder, current_group,
                   summa, info_log, uder_caller, uchrabvrVars, sumVars, mountVars, findVars>>

\* the loop of validate_person_groups has ended: the check of the last month
UderValidateEnd ==
    /\ pc = "uder_validate"
    /\ i_uder > Len(filtered_uders)
    /\ info_log' = IF Len(filtered_uders) # 0
                   THEN info_log \o check_summa(summa, filtered_uders[Len(filtered_uders)])
                   ELSE info_log
    /\ pc' = "uder_return"
    /\ UNCHANGED <<all_uders, uder_pos, uder_clsch, person_uders,
                   normalize_last_mount, filtered_uders, i_uder, current_group,
                   summa, uder_caller, uchrabvrVars, sumVars, mountVars, findVars>>

\* processing_person has returned: the loop clears person_uders and takes the
\* held row, or start() returns
UderAfterPerson ==
    /\ pc = "uder_return"
    /\ IF uder_caller = "loop"
       THEN /\ person_uders' = <<all_uders[uder_pos]>>
            /\ uder_clsch' = <<all_uders[uder_pos].clsch>>
            /\ pc' = "uder_loop"
       ELSE /\ pc' = "uder_done"
            /\ UNCHANGED <<person_uders, uder_clsch>>
    /\ uder_caller' = "none"
    /\ UNCHANGED <<all_uders, uder_pos, normalize_last_mount, filtered_uders,
                   i_uder, current_group, summa, info_log,
                   uchrabvrVars, sumVars, mountVars, findVars>>

NextUder ==
    \/ UderConstruct
    \/ UderStart
    \/ UderReadSame
    \/ UderReadChange
    \/ UderEndOfStream
    \/ UderFilterSort
    \/ UderValidateStep
    \/ UderBadSum
    \/ UderValidateEnd
    \/ UderAfterPerson

SpecUder == InitUder /\ [][NextUder]_vars


(***************************************************************************)
(* The two lookups of the primary rows: Uchrabvr.find_uchrabvr over the    *)
(* index of create_index_by_key, and the linear scan Otpusk.find_uchrabvr  *)
(* of src/SRC/otpusk.py, called for the same group, code set and period.   *)
(***************************************************************************)
\* the code table of otpusk.py
VARIABLE_VIDOPS ==
    << PrimarySecondaryCodes(Tup(<<"18", "48", "87", "204">>), Tup(<<"305", "306">>)),
       PrimarySecondaryCodes(Str("20"), Tup(<<"315", "316">>)),
       PrimarySecondaryCodes(Str("54"), Tup(<<"313", "314">>)),
       PrimarySecondaryCodes(Str("76"), Tup(<<"309", "310">>)),
       PrimarySecondaryCodes(Str("77"), Tup(<<"311", "312">>)),
       PrimarySecondaryCodes(Str("106"), Tup(<<"303", "304">>)),
       PrimarySecondaryCodes(Tup(<<"107", "111">>), Tup(<<"307", "308">>)),
       PrimarySecondaryCodes(Tup(<<"108", "109">>), Tup(<<"318", "319">>)),
       PrimarySecondaryCodes(Tup(<<"104", "110", "112">>), Tup(<<"303", "304">>)) >>

\* Otpusk.find_uchrabvr: the rows in order, for each row the primary codes in
\* order; the position is appended for every code that equals the row's
OtpuskFindUchrabvr(person, primary_vidops, datan, datok) ==
    LET pv == IF primary_vidops.isStr THEN <<primary_vidops.val>> ELSE primary_vidops.val
        hits(k) == {n \in DOMAIN pv : /\ person[k].vidop = pv[n]
                                      /\ person[k].datan = datan
                                      /\ person[k].datok = datok}
    IN  Flatten([k \in DOMAIN person |-> [n \in 1..Cardinality(hits(k)) |-> k]])

\* the rows the groups of the comparison are made of
FindRowChoices ==
    { UchrabvrStructure("", "001", "18",  ZERO, ZERO,  Jan1, Jan31, "A"),
      UchrabvrStructure("", "001", "48",  ZERO, ZERO,  Jan1, Jan31, "A"),
      UchrabvrStructure("", "001", "18",  ZERO, ZERO,  Jan1, Jan15, "A"),
      UchrabvrStructure("", "001", "20",  ZERO, ZERO,  Jan1, Jan31, "A"),
      UchrabvrStructure("", "001", "305", ZERO, S_100, Jan1, Jan31, "A") }

\* the groups of at most MaxLen rows
FindGroups ==
    UNION { { [k \in 1..n |-> [f[k] EXCEPT !.nrec = Nrecs[k]]] :
              f \in [1..n -> FindRowChoices] } : n \in 0..MaxLen }

\* the primary sides of the two code tables
FindPrimaries ==
    {PRIMARY_SECONDARY_PAYCODES[m].primary : m \in DOMAIN PRIMARY_SECONDARY_PAYCODES}
    \cup {VARIABLE_VIDOPS[m].primary : m \in DOMAIN VARIABLE_VIDOPS}

InitFind ==
    /\ pc = "find"
    /\ paycodes = PRIMARY_SECONDARY_PAYCODES
    /\ return_code = 0
    /\ input = << >>
    /\ pos = 0
    /\ current_clsch = START_CLSCH
    /\ person_uchrabvr \in FindGroups
    /\ index_by_key = << >>
    /\ processed_vidops = {}
    /\ SQL_update_queries = << >>
    /\ i = 1
    /\ caller = "none"
    /\ log = << >>
    /\ groups = << >>
    /\ exit_code = -1
    /\ duplicate_codes = << >>
    /\ find_primary_vidops \in FindPrimaries
    /\ find_datan = Jan1
    /\ find_datok \in {Jan15, Jan31}
    /\ nums_by_index = << >>
    /\ nums_by_scan = << >>
    /\ SumIdle
    /\ MountIdle
    /\ UderIdle

\* Uchrabvr.create_index_by_key for the group
FindCreateIndex ==
    /\ pc = "find"
    /\ index_by_key' = BuildIndex(person_uchrabvr)
    /\ pc' = "find_indexed"
    /\ UNCHANGED <<paycodes, return_code, input, pos, current_clsch,
                   person_uchrabvr, processed_vidops, SQL_update_queries, i,
                   caller, log, groups, exit_code, duplicate_codes,
                   sumVars, mountVars, uderVars, findVars>>

\* Uchrabvr.find_uchrabvr
FindByIndex ==
    /\ pc = "find_indexed"
    /\ nums_by_index' =
          find_uchrabvr(index_by_key, find_primary_vidops, find_datan, find_datok)
    /\ pc' = "find_looked"
    /\ UNCHANGED <<find_primary_vidops, find_datan, find_datok, nums_by_scan,
                   uchrabvrVars, sumVars, mountVars, uderVars>>

\* Otpusk.find_uchrabvr on the same rows
FindByScan ==
    /\ pc = "find_looked"
    /\ nums_by_scan' =
          OtpuskFindUchrabvr(person_uchrabvr, find_primary_vidops, find_datan,
                             find_datok)
    /\ pc' = "find_done"
    /\ UNCHANGED <<find_primary_vidops, find_datan, find_datok, nums_by_index,
                   uchrabvrVars, sumVars, mountVars, uderVars>>

NextFind == FindCreateIndex \/ FindByIndex \/ FindByScan

SpecFind == InitFind /\ [][NextFind]_vars


(***************************************************************************)
(* Properties.                                                             *)
(***************************************************************************)
\* the rows of the stream, as start() sees them
StreamRows == [k \in DOMAIN input |-> StreamRow(k)]

\* the maximal runs of rows with equal clsch, in order
RECURSIVE Runs(_)
Runs(s) ==
    IF s = << >> THEN << >>
    ELSE LET rest == Runs(Tail(s))
         IN  IF rest # << >> /\ Head(rest)[1].clsch = Head(s).clsch
             THEN <<(<<Head(s)>> \o Head(rest))>> \o Tail(rest)
             ELSE <<(<<Head(s)>>)>> \o rest

IsPrefix(a, b) == Len(a) <= Len(b) /\ \A k \in DOMAIN a : a[k] = b[k]

\* C1: the groups start() processes are the maximal runs of equal clsch of the
\* stream, in stream order, each with exactly the rows of its run: at any moment
\* they are an initial part of the runs, when start() has returned they are all
\* the runs (none for an empty stream), and the last run is processed only by the
\* call that follows the end of the stream.
GroupsAreRuns ==
    /\ IsPrefix(groups, Runs(StreamRows))
    /\ pc = "done" => groups = Runs(StreamRows)
    /\ (groups # << >> /\ Len(groups) = Len(Runs(StreamRows)))
          => (pos = Len(input) /\ (caller = "tail" \/ pc = "done"))

\* keys [A, A, B]: start() has returned having processed two groups, the second
\* after the end of the stream
GroupsAreRunsWitness ==
    /\ pc = "done"
    /\ Len(input) = 3
    /\ input[1].clsch = "A" /\ input[2].clsch = "A" /\ input[3].clsch = "B"
    /\ Len(groups) = 2
    /\ Len(groups[1]) = 2 /\ Len(groups[2]) = 1


\* the mappings that claim a code as a secondary code
MappingsOf(vidop) ==
    {m \in DOMAIN paycodes : vidop \in Range(normalize_tuple_str(paycodes[m].secondary))}

\* the rows of the group a secondary row may be folded into: code in the primary
\* set of the row's mapping, same period-start and period-end
Candidates(person, row) ==
    {k \in DOMAIN person :
        /\ \E m \in MappingsOf(row.vidop) :
              person[k].vidop \in Range(normalize_tuple_str(paycodes[m].primary))
        /\ person[k].datan = row.datan
        /\ person[k].datok = row.datok}

\* processing_vidops is at a row with a secondary code
AtSecondary ==
    /\ pc = "resolve"
    /\ i <= Len(person_uchrabvr)
    /\ MappingsOf(person_uchrabvr[i].vidop) # {}

CurCandidates == Candidates(person_uchrabvr, person_uchrabvr[i])

\* the input of the end-to-end example: primary {id=10, code=18}, secondary
\* {id=11, code=305, summaval=100.00}, same period, same employee
TwoRowExample ==
    << UchrabvrStructure("10", "001", "18",  ZERO, ZERO,  Jan1, Jan31, "A"),
       UchrabvrStructure("11", "001", "305", ZERO, S_100, Jan1, Jan31, "A") >>

\* C2: when the secondary row at hand has exactly one candidate and the sum can be
\* computed, the step gives that candidate the sum sum_str(its sum, the secondary
\* row's summaval) and puts both codes into processed_vidops; and the run on the
\* two-row example ends with the single statement
\* UPDATE uchrabvr WHERE nrec=10 SET summa:=100.00;
SinglePrimaryUpdated ==
    /\ [][ ( /\ AtSecondary
             /\ Cardinality(CurCandidates) = 1
             /\ \A k \in CurCandidates :
                   ~SumStrFails(person_uchrabvr[k].summa, person_uchrabvr[i].summaval) )
           => \A k \in CurCandidates :
                 /\ person_uchrabvr'[k].summa =
                       sum_str(person_uchrabvr[k].summa, person_uchrabvr[i].summaval)
                 /\ {person_uchrabvr[k].vidop, person_uchrabvr[i].vidop}
                       \subseteq processed_vidops' ]_vars
    /\ []( (pc = "done" /\ input = TwoRowExample)
           => SQL_update_queries =
                 << <<"UPDATE uchrabvr WHERE nrec=", "10", " SET summa:=",
                      <<"1", "0", "0", ".", "0", "0">>, ";">> >> )

\* the two-row example has run to the end and one statement was generated
SinglePrimaryUpdatedWitness ==
    /\ pc = "done"
    /\ input = TwoRowExample
    /\ Len(SQL_update_queries) = 1
    /\ {"18", "305"} \subseteq processed_vidops


\* the messages of the log of the given kinds
Logged(kinds) == {k \in DOMAIN log : log[k].kind \in kinds}

MatchKinds == {"NoPrimaryFound", "AmbiguousPrimary", "Uncovered"}

\* C3 as stated: once start() has returned, return_code is 0 exactly when no
\* NoPrimaryFound, AmbiguousPrimary or Uncovered message was logged, and the
\* two-row example ends with return code 0.
ReturnCodeOnlyFromMatching ==
    pc = "done" =>
        /\ (return_code = 0) <=> (Logged(MatchKinds) = {})
        /\ input = TwoRowExample => return_code = 0

\* C3 as amended: once start() has returned, return_code is 0 exactly when the
\* configuration file was found and no NoPrimaryFound, AmbiguousPrimary or
\* Uncovered message was logged, and is 1 otherwise; the two-row example ends
\* with return code 0 when the configuration file was found.
ReturnCodeFromConfigAndMatching ==
    pc = "done" =>
        /\ return_code \in {0, 1}
        /\ (return_code = 0) <=> (Logged(MatchKinds \cup {"CfgNotFound"}) = {})
        /\ (input = TwoRowExample /\ Logged({"CfgNotFound"}) = {}) => return_code = 0

\* the two-row example has run with the configuration file present
ReturnCodeWitness ==
    /\ pc = "done"
    /\ input = TwoRowExample
    /\ Logged({"CfgNotFound"}) = {}
    /\ return_code = 0


\* the primary codes the mapping of a secondary row expects
ExpectedPrimary(row) ==
    UNION {Range(normalize_tuple_str(paycodes[m].primary)) : m \in MappingsOf(row.vidop)}

\* a message about a secondary row: employee, code, period, expected primary codes
AboutRow(d, row) ==
    /\ d.tabn = row.tabn
    /\ d.args[1] = row.vidop
    /\ d.args[2] = row.datan
    /\ d.args[3] = row.datok
    /\ Range(d.args[4]) = ExpectedPrimary(row)

\* a step of the resolution that logs one message of the kind about the row at hand,
\* marks the run as failed, changes no row and no statement and goes to the next row
DiagnosedAndSkipped(kind) ==
    /\ Len(log') = Len(log) + 1
    /\ SubSeq(log', 1, Len(log)) = log
    /\ log'[Len(log')].kind = kind
    /\ AboutRow(log'[Len(log')], person_uchrabvr[i])
    /\ return_code' = 1
    /\ person_uchrabvr' = person_uchrabvr
    /\ SQL_update_queries' = SQL_update_queries
    /\ pc' = "resolve"
    /\ i' = i + 1

\* C4: a secondary row without any candidate in its group gets a NoPrimaryFound
\* message, return_code becomes 1, no row is updated and the resolution goes on
\* with the next row of the group.
NoPrimaryIsDiagnosed ==
    [][ (AtSecondary /\ CurCandidates = {})
        => DiagnosedAndSkipped("NoPrimaryFound") ]_vars

\* a NoPrimaryFound was logged for the first employee, the batch went on and a
\* later employee's rows still produced a statement
NoPrimaryIsDiagnosedWitness ==
    /\ pc = "done"
    /\ Logged({"NoPrimaryFound"}) # {}
    /\ log[1].kind = "NoPrimaryFound"
    /\ return_code = 1
    /\ SQL_update_queries # << >>

\* the input of the ambiguity example: primaries 18 and 48 and a secondary 305 of
\* the same employee and period
AmbiguousExample ==
    << UchrabvrStructure("10", "001", "18",  ZERO,   ZERO,  Jan1, Jan31, "A"),
       UchrabvrStructure("11", "001", "48",  S_7_50, ZERO,  Jan1, Jan31, "A"),
       UchrabvrStructure("12", "001", "305", ZERO,   S_100, Jan1, Jan31, "A") >>

\* C5: a secondary row with more than one candidate in its group gets an
\* AmbiguousPrimary message, return_code becomes 1, no row is updated and no
\* statement comes of it; the run on the 18/48/305 example ends with return code 1
\* and without any statement.
AmbiguousIsDiagnosed ==
    /\ [][ (AtSecondary /\ Cardinality(CurCandidates) > 1)
           => DiagnosedAndSkipped("AmbiguousPrimary") ]_vars
    /\ []( (pc = "done" /\ input = AmbiguousExample)
           => /\ return_code = 1
              /\ SQL_update_queries = << >>
              /\ Logged({"AmbiguousPrimary"}) # {} )

\* the 18/48/305 example has run to the end
AmbiguousIsDiagnosedWitness ==
    /\ pc = "done"
    /\ input = AmbiguousExample
    /\ Logged({"AmbiguousPrimary"}) # {}
    /\ return_code = 1

\* the messages of the given kind among those a step adds to the log
NewLogged(kind) ==
    LET added == SubSeq(log', Len(log) + 1, Len(log'))
        keep  == SelectSeqIdx(Len(added), {k \in DOMAIN added : added[k].kind = kind})
    IN  [k \in DOMAIN keep |-> added[keep[k]]]

\* C6: the coverage pass of a group logs an Uncovered message (employee, code) for
\* each row whose code is not in processed_vidops, in row order, and for no other
\* row; return_code becomes 1 when there is such a row and is left alone otherwise.
UncoveredIsPerCode ==
    [][ pc = "cover" =>
          LET unc == SelectSeqIdx(Len(person_uchrabvr),
                        {k \in DOMAIN person_uchrabvr :
                            person_uchrabvr[k].vidop \notin processed_vidops})
          IN  /\ SubSeq(log', 1, Len(log)) = log
              /\ NewLogged("Uncovered") =
                    [k \in DOMAIN unc |->
                        [kind |-> "Uncovered",
                         tabn |-> person_uchrabvr[unc[k]].tabn,
                         args |-> <<person_uchrabvr[unc[k]].vidop>>]]
              /\ return_code' = IF unc = << >> THEN return_code ELSE 1 ]_vars

\* a group has passed the coverage check: its row of code 999 was reported, its
\* matched rows of codes 18 and 305 were not
UncoveredIsPerCodeWitness ==
    /\ pc = "return"
    /\ Len(person_uchrabvr) = 3
    /\ processed_vidops = {"18", "305"}
    /\ \E k \in DOMAIN person_uchrabvr : person_uchrabvr[k].vidop = "999"
    /\ \E k \in DOMAIN person_uchrabvr : person_uchrabvr[k].vidop = "18"
    /\ Cardinality(Logged({"Uncovered"})) = 1
    /\ log[Len(log)] = [kind |-> "Uncovered", tabn |-> "001", args |-> <<"999">>]
    /\ return_code = 1

SecondaryClaims(table, code) ==
    {m \in DOMAIN table : code \in Range(normalize_tuple_str(table[m].secondary))}

SecondaryCodes(table) ==
    UNION {Range(normalize_tuple_str(table[m].secondary)) : m \in DOMAIN table}

Count(s, x) == Cardinality({k \in DOMAIN s : s[k] = x})

\* C9: in the list validate_unique_secondary_codes returns, every secondary code
\* that more than one mapping claims occurs exactly once, however many mappings
\* repeat it.
DuplicateListedOnce ==
    pc = "validated" =>
        \A code \in SecondaryCodes(paycodes) :
            Cardinality(SecondaryClaims(paycodes, code)) > 1
                => Count(duplicate_codes, code) = 1

\* a secondary code is claimed by two different mappings of the table
HasDuplicateSecondary(table) ==
    \E code \in SecondaryCodes(table) : Cardinality(SecondaryClaims(table, code)) > 1

\* C10: with a code table in which two mappings claim the same secondary code,
\* construction fails: the run never starts, no group is processed and no
\* statement is generated.
DuplicateTableNeverRuns ==
    HasDuplicateSecondary(paycodes) =>
        /\ pc \in {"new", "config_error"}
        /\ input = << >>
        /\ groups = << >>
        /\ SQL_update_queries = << >>

\* construction has failed on the table with "305" in two mappings, and the
\* duplicate was reported
DuplicateTableNeverRunsWitness ==
    /\ pc = "config_error"
    /\ HasDuplicateSecondary(paycodes)
    /\ log[Len(log)].kind = "DuplicateCodes"
    /\ log[Len(log)].args = << <<"305">> >>

\* the positions of the rows of a group whose sum is not "0.00", ascending
ChangedRows(person) ==
    SelectSeqIdx(Len(person), {k \in DOMAIN person : person[k].summa # <<"0", ".", "0", "0">>})

\* the record id a statement names
StatementNrec(st) == st[2]

\* C11: when a group has been closed by the emitter, the statement list ends with
\* exactly one statement UPDATE uchrabvr WHERE nrec=<id> SET summa:=<sum>; for each
\* row of the group whose sum is not "0.00", in row order, and holds no statement
\* for any row of the group whose sum is "0.00".
StatementPerChangedRow ==
    pc \in {"cover", "return"} =>
        LET person == person_uchrabvr
            exp    == ChangedRows(person)
            before == Len(SQL_update_queries) - Len(exp)
        IN  /\ before >= 0
            /\ \A k \in DOMAIN exp :
                   SQL_update_queries[before + k] =
                       <<"UPDATE uchrabvr WHERE nrec=", person[exp[k]].nrec,
                         " SET summa:=", person[exp[k]].summa, ";">>
            /\ \A j \in 1..before : \A k \in DOMAIN person :
                   StatementNrec(SQL_update_queries[j]) # person[k].nrec

\* the second group of the two-employee file has been closed: its statement, for
\* the row of code 18 alone, follows the first group's
StatementPerChangedRowWitness ==
    /\ pc = "cover"
    /\ input = TwoGroupsFile
    /\ Len(groups) = 2
    /\ person_uchrabvr[2].summa = ZERO
    /\ SQL_update_queries =
          << <<"UPDATE uchrabvr WHERE nrec=", "10", " SET summa:=", S_100, ";">>,
             <<"UPDATE uchrabvr WHERE nrec=", "12", " SET summa:=", S_m90, ";">> >>

\* the group of the file with cancelling amounts has been closed: its rows were
\* matched, no sum differs from "0.00" and no statement was added
CancelledGroupClosed ==
    /\ pc = "cover"
    /\ input = CancelFile
    /\ Len(person_uchrabvr) = 3
    /\ processed_vidops = {"18", "305", "306"}
    /\ SQL_update_queries = << >>

\* the position in the input of the row a statement names
InputPosOf(st) == CHOOSE k \in DOMAIN input : input[k].nrec = StatementNrec(st)

\* C12: no step removes or reorders statements already in the list (every step
\* leaves the old list as an initial part of the new one), and the statements
\* are in the order of the rows of the input they name, which is the order of
\* the groups' arrival and, within a group, of its rows.
StatementsAppendOnly ==
    /\ [][IsPrefix(SQL_update_queries, SQL_update_queries')]_vars
    /\ [](\A j, k \in DOMAIN SQL_update_queries :
             /\ \E n \in DOMAIN input : input[n].nrec = StatementNrec(SQL_update_queries[j])
             /\ j < k => InputPosOf(SQL_update_queries[j]) < InputPosOf(SQL_update_queries[k]))

\* the two-period file has run to the end: two statements of the first group, in
\* row order, although the row named first was updated last
StatementsAppendOnlyWitness ==
    /\ pc = "done"
    /\ input = TwoPeriodsFile
    /\ Len(groups) = 2
    /\ Len(SQL_update_queries) = 2
    /\ StatementNrec(SQL_update_queries[1]) = "10"
    /\ StatementNrec(SQL_update_queries[2]) = "12"

\* a decimal numeral: an optional sign, then digits with at most one "." among
\* them and at least one digit
IsNumeral(s) ==
    LET body == IF Len(s) > 0 /\ s[1] \in {"-", "+"} THEN Tail(s) ELSE s
    IN  /\ \A k \in DOMAIN body : IsDigit(body[k]) \/ body[k] = "."
        /\ Cardinality({k \in DOMAIN body : body[k] = "."}) <= 1
        /\ \E k \in DOMAIN body : IsDigit(body[k])

\* a value that is a valid decimal string
ValidDecimal(a) == a.type = "str" /\ IsNumeral(a.val)

\* a string of the form [-]digits.dd
TwoFractionalDigits(r) ==
    LET body == IF Len(r) > 0 /\ r[1] = "-" THEN Tail(r) ELSE r
        n    == Len(body)
    IN  /\ n >= 4
        /\ body[n - 2] = "."
        /\ \A k \in DOMAIN body : k # n - 2 => IsDigit(body[k])

\* C13: for valid decimal strings a and b, sum_str(a, b) returns a value, the
\* same value as sum_str(b, a), and the value has exactly two fractional digits.
SumCommutes ==
    (pc = "summed" /\ ValidDecimal(s1) /\ ValidDecimal(s2)) =>
        /\ sum_result.raised = "none"
        /\ sum_result = SumStrCall(s2, s1)
        /\ TwoFractionalDigits(sum_result.value)

\* sum_str("-.5", ".5") has returned "0.00"
SumCommutesWitness ==
    /\ pc = "summed"
    /\ s1 = PyStr(<<"-", ".", "5">>)
    /\ s2 = PyStr(<<".", "5">>)
    /\ sum_result = Returned(<<"0", ".", "0", "0">>)

\* the value of a numeral with at most n fractional digits, in units of 10^-n
ValueAt(s, n) ==
    LET body == IF Len(s) > 0 /\ s[1] \in {"-", "+"} THEN Tail(s) ELSE s
        dots == {k \in DOMAIN body : body[k] = "."}
        dot  == IF dots = {} THEN Len(body) + 1 ELSE CHOOSE k \in dots : TRUE
        ip   == SubSeq(body, 1, dot - 1)
        fp   == SubSeq(body, dot + 1, Len(body))
    IN  (IF Len(s) > 0 /\ s[1] = "-" THEN -1 ELSE 1)
        * (DigitsToNat(ip) * Pow10(n) + DigitsToNat(fp) * Pow10(n - Len(fp)))

Abs(x) == IF x < 0 THEN -x ELSE x

\* C14: for valid decimal strings a and b (of at most three fractional digits),
\* sum_str(a, b) is the exact sum rounded to two fractional digits, half to even:
\* it differs from the exact sum by at most 0.005, and when by exactly 0.005 its
\* last digit is even; sum_str("0.005", "0") = "0.00", sum_str("0.015", "0") =
\* "0.02", sum_str("5.321", "-3.617") = "1.70".
SumIsHalfEven ==
    pc = "summed" =>
        /\ (ValidDecimal(s1) /\ ValidDecimal(s2)) =>
              LET exact   == ValueAt(s1.val, 3) + ValueAt(s2.val, 3)
                  rounded == ValueAt(sum_result.value, 2)
              IN  /\ sum_result.raised = "none"
                  /\ Abs(10 * rounded - exact) <= 5
                  /\ Abs(10 * rounded - exact) = 5 => rounded % 2 = 0
        /\ (s1 = PyStr(<<"0", ".", "0", "0", "5">>) /\ s2 = PyStr(<<"0">>))
              => sum_result = Returned(<<"0", ".", "0", "0">>)
        /\ (s1 = PyStr(<<"0", ".", "0", "1", "5">>) /\ s2 = PyStr(<<"0">>))
              => sum_result = Returned(<<"0", ".", "0", "2">>)
        /\ (s1 = PyStr(<<"5", ".", "3", "2", "1">>)
               /\ s2 = PyStr(<<"-", "3", ".", "6", "1", "7">>))
              => sum_result = Returned(<<"1", ".", "7", "0">>)

\* sum_str("0.015", "0") has returned "0.02"
SumIsHalfEvenWitness ==
    /\ pc = "summed"
    /\ s1 = PyStr(<<"0", ".", "0", "1", "5">>)
    /\ s2 = PyStr(<<"0">>)
    /\ sum_result = Returned(<<"0", ".", "0", "2">>)

\* C15: when an operand of sum_str is no str or is no decimal number, the call
\* raises ValueError and returns no value.
InvalidOperandRaisesValueError ==
    (pc = "summed" /\ (~ValidDecimal(s1) \/ ~ValidDecimal(s2))) =>
        sum_result = Raised("ValueError")

\* C17: normalize_mount gives "00" for the empty string, "0" followed by c for a
\* one-character string c and the first two characters for any longer string
\* ("12XX" gives "12"); the result has exactly two characters, and normalizing
\* the result again gives the same result.
MountIsTwoChars ==
    /\ pc \in {"mounted", "mounted_again"} =>
          /\ Len(mount) = 0 => mount_result = <<"0", "0">>
          /\ Len(mount) = 1 => mount_result = <<"0", mount[1]>>
          /\ Len(mount) >= 2 => mount_result = <<mount[1], mount[2]>>
          /\ mount = <<"1", "2", "X", "X">> => mount_result = <<"1", "2">>
          /\ Len(mount_result) = 2
    /\ pc = "mounted_again" => mount_again = mount_result

\* "7" was normalized to "07", and "07" again to "07"
MountIsTwoCharsWitness ==
    /\ pc = "mounted_again"
    /\ mount = <<"7">>
    /\ mount_result = <<"0", "7">>
    /\ mount_again = <<"0", "7">>

\* a row of UDER.txt qualifies: its code is a tax code and its normalized month
\* does not exceed the normalized cutoff
Qualifies(uder) ==
    /\ uder.vidud \in {"13", "182"}
    /\ ~StrLess(normalize_last_mount, normalize_mount(uder.mes))

\* the amounts of the qualifying rows of a group in a normalized month, in order
MonthAmounts(group, m) ==
    LET keep == SelectSeqIdx(Len(group),
                    {k \in DOMAIN group :
                        Qualifies(group[k]) /\ normalize_mount(group[k].mes) = m})
    IN  [k \in DOMAIN keep |-> group[keep[k]].sumud]

\* the decimal sum of a list of amounts, from "0.00"
RECURSIVE SumOf(_)
SumOf(amounts) ==
    IF amounts = << >> THEN <<"0", ".", "0", "0">>
    ELSE sum_str(SumOf(SubSeq(amounts, 1, Len(amounts) - 1)), amounts[Len(amounts)])

\* the normalized months of a group that have a qualifying row and whose sum is
\* not "0.00"
ResidualMonths(group) ==
    {m \in {normalize_mount(group[k].mes) : k \in {j \in DOMAIN group : Qualifies(group[j])}} :
        SumOf(MonthAmounts(group, m)) # <<"0", ".", "0", "0">>}

\* a set of months as an ascending sequence
RECURSIVE Ascending(_)
Ascending(ms) ==
    IF ms = {} THEN << >>
    ELSE LET least == CHOOSE m \in ms : \A n \in ms : ~StrLess(n, m)
         IN  <<least>> \o Ascending(ms \ {least})

\* month and residual of the lines a group is due
DueLines(group) ==
    LET ms == Ascending(ResidualMonths(group))
    IN  [k \in DOMAIN ms |-> <<ms[k], SumOf(MonthAmounts(group, ms[k]))>>]

\* month and residual of the lines logged
LoggedLines == [k \in DOMAIN info_log |-> <<info_log[k].mount, info_log[k].summa>>]

\* the rows of the test of the grouping: 100.00 in month "5", -90.00 in month "05",
\* 999.00 in month "7", one employee
GroupingExample ==
    << UderStructure("10", "001", <<"5">>,      "13", S_100, "A"),
       UderStructure("11", "001", <<"0", "5">>, "13", S_m90, "A"),
       UderStructure("12", "001", <<"7">>,      "13", S_999, "A") >>

\* C16: the residual lines of an employee group are, one for one and in month
\* order, the normalized months of the group that have a qualifying row and whose
\* decimal sum is not "0.00", each with that sum and the employee's tab number:
\* when a group has been checked its lines end the log, and when start() has
\* returned the log holds the lines of all groups and nothing else.  100.00 and
\* -90.00 in one normalized month give one line with 10.00; a month that sums to
\* "0.00" and a group without qualifying rows give no line.
ResidualLinePerMonth ==
    /\ pc = "uder_return" =>
          LET due == DueLines(person_uders)
              n   == Len(info_log) - Len(due)
          IN  /\ n >= 0
              /\ SubSeq(LoggedLines, n + 1, Len(info_log)) = due
              /\ \A k \in n + 1 .. Len(info_log) :
                     \E j \in DOMAIN person_uders :
                        person_uders[j].tabn = info_log[k].tabn
    /\ pc = "uder_done" =>
          LET runs == Runs(all_uders)
          IN  LoggedLines = Flatten([g \in DOMAIN runs |-> DueLines(runs[g])])
    /\ (pc = "uder_done" /\ all_uders = GroupingExample
           /\ normalize_last_mount = <<"0", "6">>)
          => info_log = << InfoLine("001", <<"0", "5">>, <<"1", "0", ".", "0", "0">>) >>

\* the rows of the test have been checked with the cutoff "06": one line, 10.00 for
\* month "05"; the month "07" is beyond the cutoff
ResidualLinePerMonthWitness ==
    /\ pc = "uder_done"
    /\ all_uders = GroupingExample
    /\ normalize_last_mount = <<"0", "6">>
    /\ info_log = << InfoLine("001", <<"0", "5">>, <<"1", "0", ".", "0", "0">>) >>

\* a group whose only qualifying month sums to "0.00" has been checked, and
\* nothing was logged
ZeroMonthChecked ==
    /\ pc = "uder_done"
    /\ Len(all_uders) = 2
    /\ all_uders[1].sumud = S_100 /\ all_uders[2].sumud = S_m100
    /\ Len(filtered_uders) = 2
    /\ info_log = << >>

\* the place of a row in person_uders
PlaceOf(row) == CHOOSE k \in DOMAIN person_uders : person_uders[k].nrec = row.nrec

\* C18: filter_sort_by_group keeps exactly the rows of the group that qualify,
\* each once and with its normalized month as its key, in ascending order of the
\* key and, for equal keys, in the order of the group; months 6, 4 and a row of
\* code 999 under the cutoff 6 give the keys "04", "06".
FilteredSortedStable ==
    pc \in {"uder_validate", "uder_return", "uder_aborted"} =>
        /\ \A k \in DOMAIN person_uders :
               Qualifies(person_uders[k])
                   <=> \E j \in DOMAIN filtered_uders :
                          filtered_uders[j].nrec = person_uders[k].nrec
        /\ \A j \in DOMAIN filtered_uders :
               \E k \in DOMAIN person_uders :
                  filtered_uders[j] =
                      [nrec |-> person_uders[k].nrec, tabn |-> person_uders[k].tabn,
                       mes |-> person_uders[k].mes, vidud |-> person_uders[k].vidud,
                       sumud |-> person_uders[k].sumud, clsch |-> person_uders[k].clsch,
                       group_vidud |-> normalize_mount(person_uders[k].mes)]
        /\ \A j, l \in DOMAIN filtered_uders :
               j < l =>
                  /\ filtered_uders[j].nrec # filtered_uders[l].nrec
                  /\ ~StrLess(filtered_uders[l].group_vidud, filtered_uders[j].group_vidud)
                  /\ filtered_uders[j].group_vidud = filtered_uders[l].group_vidud
                        => PlaceOf(filtered_uders[j]) < PlaceOf(filtered_uders[l])
        /\ ( /\ normalize_last_mount = <<"0", "6">>
             /\ Len(person_uders) = 3
             /\ person_uders[1].mes = <<"6">> /\ person_uders[1].vidud = "13"
             /\ person_uders[2].mes = <<"4">> /\ person_uders[2].vidud = "182"
             /\ person_uders[3].vidud = "999" )
              => [j \in DOMAIN filtered_uders |-> filtered_uders[j].group_vidud]
                    = << <<"0", "4">>, <<"0", "6">> >>

\* a group with months "5", "4", "05" has been filtered and sorted: the row of
\* month "4" comes first and the two rows of month "05" keep their order
FilteredSortedStableWitness ==
    /\ pc = "uder_validate"
    /\ i_uder = 1
    /\ Len(person_uders) = 3
    /\ person_uders[1].mes = <<"5">>
    /\ person_uders[2].mes = <<"4">>
    /\ person_uders[3].mes = <<"0", "5">>
    /\ [j \in DOMAIN filtered_uders |-> filtered_uders[j].nrec]
          = <<person_uders[2].nrec, person_uders[1].nrec, person_uders[3].nrec>>

\* the resolution is at a secondary row with one candidate whose sum cannot be
\* computed: the step that raises ValueError
BadSumAtHand ==
    /\ AtSecondary
    /\ Cardinality(CurCandidates) = 1
    /\ \A k \in CurCandidates :
          SumStrFails(person_uchrabvr[k].summa, person_uchrabvr[i].summaval)

\* C19: a group goes through index build, resolution, emission and coverage in
\* this order and once: the index is built only on entry from the loop of start()
\* and adds one group; the resolution starts at the first row and, whatever a row
\* gives (no mapping, NoPrimaryFound, AmbiguousPrimary, an update), goes on to the
\* next row, so that emission and coverage come only when every row has been
\* visited; emission is followed by coverage and coverage by the return.  When
\* the group is closed, every row whose sum changed has its statement, whatever
\* diagnostics the group gave.
GroupPhasesInOrder ==
    /\ [][ /\ pc = "index" => (pc' = "vidops" /\ Len(groups') = Len(groups) + 1)
           /\ pc' = "index" => (pc = "loop" /\ person_uchrabvr # << >>)
           /\ groups' # groups => pc = "index"
           /\ pc = "vidops" => (pc' = "resolve" /\ i' = 1)
           /\ (pc = "resolve" /\ i <= Len(person_uchrabvr) /\ ~BadSumAtHand)
                 => (pc' = "resolve" /\ i' = i + 1)
           /\ Len(log') > Len(log)
                 /\ log'[Len(log')].kind \in {"NoPrimaryFound", "AmbiguousPrimary"}
                 => (pc' = "resolve" /\ i' = i + 1)
           /\ (pc = "resolve" /\ i > Len(person_uchrabvr)) => pc' = "cover"
           /\ pc' = "cover" => (pc = "resolve" /\ i = Len(person_uchrabvr) + 1)
           /\ pc = "cover" => pc' = "return"
           /\ pc = "return" => pc' \in {"loop", "done"} ]_vars
    /\ [](pc \in {"cover", "return"} =>
             /\ i = Len(person_uchrabvr) + 1
             /\ \A k \in DOMAIN person_uchrabvr :
                    person_uchrabvr[k].summa # ZERO
                        => \E j \in DOMAIN SQL_update_queries :
                              SQL_update_queries[j] = Statement(person_uchrabvr[k]))

\* the mixed file has run to the end: a NoPrimaryFound in the first group, whose
\* matched pair still gave its statement, and an AmbiguousPrimary in the second
GroupPhasesInOrderWitness ==
    /\ pc = "done"
    /\ input = MixedFile
    /\ Len(groups) = 2
    /\ Logged({"NoPrimaryFound"}) # {}
    /\ Logged({"AmbiguousPrimary"}) # {}
    /\ SQL_update_queries =
          << <<"UPDATE uchrabvr WHERE nrec=", "11", " SET summa:=", S_100, ";">> >>

\* C20 as stated: every Uncovered message names a code for which the code table
\* has no rule, neither as a primary nor as a secondary code.
UncoveredHasNoRule ==
    \A k \in Logged({"Uncovered"}) : ~HasRule(log[k].args[1])

\* C20 as amended: the coverage pass reports a row as Uncovered exactly when its
\* code is not in processed_vidops, that is when no row of that code took part in
\* a successful match in the group.  A code without any rule is never in
\* processed_vidops, so it is always reported; a primary or secondary code of a
\* mapping is reported as well when it was not matched in the group.
UncoveredIsUnmatched ==
    /\ [][ pc = "cover" =>
             LET new == NewLogged("Uncovered")
             IN  /\ \A k \in DOMAIN new :
                        /\ new[k].args[1] \notin processed_vidops
                        /\ \E r \in DOMAIN person_uchrabvr :
                              /\ person_uchrabvr[r].vidop = new[k].args[1]
                              /\ person_uchrabvr[r].tabn = new[k].tabn
                 /\ \A r \in DOMAIN person_uchrabvr :
                        (person_uchrabvr[r].vidop \notin processed_vidops)
                            <=> \E k \in DOMAIN new :
                                   /\ new[k].args[1] = person_uchrabvr[r].vidop
                                   /\ new[k].tabn = person_uchrabvr[r].tabn ]_vars
    /\ [](\A vidop \in processed_vidops : HasRule(vidop))

\* a group of one row of the primary code 18 has passed the coverage pass: the
\* code has a rule and was reported as Uncovered
UncoveredIsUnmatchedWitness ==
    /\ pc = "return"
    /\ Len(person_uchrabvr) = 1
    /\ person_uchrabvr[1].vidop = "18"
    /\ HasRule("18")
    /\ log[Len(log)] = [kind |-> "Uncovered", tabn |-> person_uchrabvr[1].tabn,
                         args |-> <<"18">>]

\* C21: validate_unique_secondary_codes returns the empty list exactly when no
\* code is a secondary code of two different mappings of the table, whatever the
\* primary codes of the table are.
ValidatesSecondaryOnly ==
    pc = "validated" =>
        ((duplicate_codes = << >>) <=> ~HasDuplicateSecondary(paycodes))

\* the least of a non-empty set of positions
Least(ms) == CHOOSE m \in ms : \A n \in ms : m <= n

\* C22: a row of the group is matched against at most one mapping, the first in
\* table order whose secondary codes hold the row's code.  The step of the
\* resolution for a row without such a mapping changes nothing; the step for a row
\* with one changes at most one row of the group, a row of a primary code of that
\* mapping and of the same period, and only in its sum, or logs one message that
\* names the primary codes of that mapping; it never does both.  Once the table
\* has passed validation no other mapping holds the row's code, so trying every
\* mapping would do the same.
MatchedAgainstFirstMapping ==
    /\ [][ (pc = "resolve" /\ i <= Len(person_uchrabvr)) =>
             LET row     == person_uchrabvr[i]
                 ms      == MappingsOf(row.vidop)
                 changed == {k \in DOMAIN person_uchrabvr :
                                person_uchrabvr'[k] # person_uchrabvr[k]}
             IN  /\ DOMAIN person_uchrabvr' = DOMAIN person_uchrabvr
                 /\ Cardinality(changed) <= 1
                 /\ Len(log') <= Len(log) + 1
                 /\ changed # {} => log' = log
                 /\ ms = {} => (UNCHANGED <<person_uchrabvr, log, processed_vidops,
                                            return_code>>)
                 /\ ms # {} =>
                       LET primary ==
                               Range(normalize_tuple_str(paycodes[Least(ms)].primary))
                       IN  /\ \/ Len(log') = Len(log) + 1
                              \/ row.vidop \in processed_vidops'
                           /\ processed_vidops' \ processed_vidops
                                  \subseteq primary \cup {row.vidop}
                           /\ \A k \in changed :
                                 /\ person_uchrabvr[k].vidop \in primary
                                 /\ person_uchrabvr[k].datan = row.datan
                                 /\ person_uchrabvr[k].datok = row.datok
                                 /\ person_uchrabvr'[k] =
                                       [person_uchrabvr[k] EXCEPT
                                           !.summa = person_uchrabvr'[k].summa]
                           /\ Len(log') = Len(log) + 1 =>
                                 \/ log'[Len(log')].kind = "SumNotNumeric"
                                 \/ Range(log'[Len(log')].args[4]) = primary ]_vars
    /\ [](pc \notin {"new", "config_error"} =>
             \A k \in DOMAIN person_uchrabvr :
                 Cardinality(MappingsOf(person_uchrabvr[k].vidop)) <= 1)

\* the file with the rows of codes 20 and 316 has run to the end: the row of code
\* 316 was matched against the second mapping of the table and its amount went to
\* the row of code 20
MatchedAgainstFirstMappingWitness ==
    /\ pc = "done"
    /\ input = SecondMappingFile
    /\ MappingsOf("316") = {2}
    /\ processed_vidops = {"20", "316"}
    /\ SQL_update_queries =
          << <<"UPDATE uchrabvr WHERE nrec=", "10", " SET summa:=", S_50, ";">> >>

\* the number of rows of the stream that have gone into a working set: the row
\* the loop holds while processing_person runs for the rows before it is not in yet
Taken == IF caller = "loop" THEN pos - 1 ELSE pos

\* C23: the working set holds rows of one employee only.  At every point of a run
\* all its rows have the key current_clsch, and they are, in order, the rows of the
\* stream from the first row of the run being read up to the last row taken: no
\* row of an earlier run is left in it, so it was emptied when the key changed.
WorkingSetIsOneRun ==
    /\ \A k \in DOMAIN person_uchrabvr : person_uchrabvr[k].clsch = current_clsch
    /\ person_uchrabvr # << >> =>
          LET first == Taken - Len(person_uchrabvr) + 1
          IN  /\ first >= 1
              /\ \A k \in DOMAIN person_uchrabvr :
                     person_uchrabvr[k].nrec = input[first + k - 1].nrec
              /\ first > 1 => input[first - 1].clsch # current_clsch
    /\ (person_uchrabvr = << >> /\ pc \notin {"new", "config_error", "ready"})
          => Taken = 0

\* keys [A, A, B]: the group of A has been processed and the working set holds the
\* row of B alone
WorkingSetIsOneRunWitness ==
    /\ pc = "loop"
    /\ pos = 3
    /\ input[1].clsch = "A" /\ input[2].clsch = "A" /\ input[3].clsch = "B"
    /\ Len(groups) = 1
    /\ Len(groups[1]) = 2
    /\ current_clsch = "B"
    /\ Len(person_uchrabvr) = 1
    /\ person_uchrabvr[1].nrec = input[3].nrec

\* what a group gives when it is worked on by itself, from row k on: its rows with
\* the sums folded in, the codes matched, the messages, and whether a sum that is
\* no number stopped it
RECURSIVE AloneFrom(_, _, _, _)
AloneFrom(person, k, matched, diags) ==
    IF k > Len(person)
    THEN [rows |-> person, matched |-> matched, diags |-> diags, stopped |-> FALSE]
    ELSE LET row  == person[k]
             cand == Candidates(person, row)
             note(kind) == [kind |-> kind, tabn |-> row.tabn,
                            args |-> <<row.vidop, row.datan, row.datok,
                                       normalize_tuple_str(
                                           paycodes[Least(MappingsOf(row.vidop))].primary)>>]
         IN  IF MappingsOf(row.vidop) = {}
             THEN AloneFrom(person, k + 1, matched, diags)
             ELSE IF cand = {}
             THEN AloneFrom(person, k + 1, matched, Append(diags, note("NoPrimaryFound")))
             ELSE IF Cardinality(cand) > 1
             THEN AloneFrom(person, k + 1, matched, Append(diags, note("AmbiguousPrimary")))
             ELSE LET p == Least(cand)
                  IN  IF SumStrFails(person[p].summa, row.summaval)
                      THEN [rows    |-> person,
                            matched |-> matched \cup {person[p].vidop, row.vidop},
                            diags   |-> Append(diags,
                                           [kind |-> "SumNotNumeric", tabn |-> row.tabn,
                                            args |-> <<person[p].vidop, person[p].summa,
                                                       row.summaval>>]),
                            stopped |-> TRUE]
                      ELSE AloneFrom([person EXCEPT
                                         ![p].summa = sum_str(person[p].summa, row.summaval)],
                                     k + 1,
                                     matched \cup {person[p].vidop, row.vidop},
                                     diags)

Alone(person) == AloneFrom(person, 1, {}, << >>)

\* the statements a group gives by itself
AloneStatements(person) ==
    LET r    == Alone(person)
        keep == SelectSeqIdx(Len(r.rows), {k \in DOMAIN r.rows : r.rows[k].summa # ZERO})
    IN  IF r.stopped THEN << >>
        ELSE [k \in DOMAIN keep |->
                 <<"UPDATE uchrabvr WHERE nrec=", r.rows[keep[k]].nrec,
                   " SET summa:=", r.rows[keep[k]].summa, ";">>]

\* the messages a group gives by itself
AloneDiags(person) ==
    LET r   == Alone(person)
        unc == SelectSeqIdx(Len(r.rows),
                   {k \in DOMAIN r.rows : r.rows[k].vidop \notin r.matched})
    IN  IF r.stopped THEN r.diags
        ELSE r.diags
             \o Flatten([k \in DOMAIN unc |->
                            << [kind |-> "UncoveredService", tabn |-> "-----",
                                args |-> <<r.rows[unc[k]].vidop>>],
                               [kind |-> "Uncovered", tabn |-> r.rows[unc[k]].tabn,
                                args |-> <<r.rows[unc[k]].vidop>>] >>])

\* the log without the message of the construction about the configuration file
RunLog ==
    LET keep == SelectSeqIdx(Len(log), {k \in DOMAIN log : log[k].kind # "CfgNotFound"})
    IN  [k \in DOMAIN keep |-> log[keep[k]]]

\* C24: the groups are independent.  Whenever the work on a group has ended (by
\* its return or by the ValueError of a bad sum), the statement list is the
\* statements and the log the messages that each group worked on so far gives by
\* itself, from its own rows and the code table, one group after the other: what
\* a group gives does not depend on the groups before it.  While a group is worked
\* on, processed_vidops holds codes of rows of that group only and the index lists
\* the keys of that group only.
GroupsAreIndependent ==
    /\ pc \in {"return", "done", "aborted", "exited"} =>
          /\ SQL_update_queries =
                Flatten([g \in DOMAIN groups |-> AloneStatements(groups[g])])
          /\ RunLog = Flatten([g \in DOMAIN groups |-> AloneDiags(groups[g])])
    /\ pc \in {"resolve", "cover", "return", "aborted"} =>
          /\ processed_vidops
                \subseteq {person_uchrabvr[k].vidop : k \in DOMAIN person_uchrabvr}
          /\ DOMAIN index_by_key
                = {<<person_uchrabvr[k].vidop, person_uchrabvr[k].datan,
                     person_uchrabvr[k].datok>> : k \in DOMAIN person_uchrabvr}

\* the first employee's rows of codes 18, 305 and 306 were matched; the second
\* employee's only row, of code 18, was still reported as Uncovered
GroupsAreIndependentWitness ==
    /\ pc = "done"
    /\ input = CancelFile
    /\ Len(groups) = 2
    /\ processed_vidops = {}
    /\ Len(RunLog) = 2
    /\ RunLog[2] = [kind |-> "Uncovered", tabn |-> "002", args |-> <<"18">>]

\* the keys of the index under which a position is listed, and how often a key
\* lists it
KeysListing(p) ==
    {key \in DOMAIN index_by_key :
        \E n \in DOMAIN index_by_key[key] : index_by_key[key][n] = p}

TimesListed(key, p) ==
    Cardinality({n \in DOMAIN index_by_key[key] : index_by_key[key][n] = p})

\* C25: from the build of the index to the end of the work on the group, every
\* position of the group is listed in the index under exactly one key and once,
\* and every position listed under a key (code, period-start, period-end) is a
\* position of the group whose row, as it is stored now, has that code and that
\* period, also when rows have been replaced by copies with a new sum.
IndexStaysValid ==
    pc \in {"vidops", "resolve", "cover", "return", "aborted"} =>
        /\ \A p \in DOMAIN person_uchrabvr :
               /\ Cardinality(KeysListing(p)) = 1
               /\ \A key \in KeysListing(p) : TimesListed(key, p) = 1
        /\ \A key \in DOMAIN index_by_key :
               /\ index_by_key[key] # << >>
               /\ \A n \in DOMAIN index_by_key[key] :
                      LET p == index_by_key[key][n]
                      IN  /\ p \in DOMAIN person_uchrabvr
                          /\ key = <<person_uchrabvr[p].vidop, person_uchrabvr[p].datan,
                                     person_uchrabvr[p].datok>>

\* two rows of code 18 and two periods: the row of the second period has been
\* replaced by a copy with the sum 100.00 and is still listed under its key, the
\* other row under its own
IndexStaysValidWitness ==
    /\ pc = "resolve"
    /\ input = TwoPeriodsFile
    /\ Len(person_uchrabvr) = 4
    /\ i = 3
    /\ person_uchrabvr[3].summa = S_100
    /\ index_by_key[<<"18", Jan1, Jan15>>] = <<3>>
    /\ index_by_key[<<"18", Jan1, Jan31>>] = <<1>>

\* the resolution is at a secondary row with exactly one candidate whose new sum
\* can be computed: the step is a successful match
MatchAtHand ==
    /\ AtSecondary
    /\ Cardinality(CurCandidates) = 1
    /\ \A k \in CurCandidates :
          ~SumStrFails(person_uchrabvr[k].summa, person_uchrabvr[i].summaval)

\* C26: the step of a successful match leaves the group's length and order, every
\* row but the matched primary row (the secondary row at hand among them), every
\* field of the matched row but summa, the index and the statement list as they
\* were; it adds no message.
MatchChangesOnlySum ==
    [][ MatchAtHand =>
          \A p \in CurCandidates :
             /\ DOMAIN person_uchrabvr' = DOMAIN person_uchrabvr
             /\ \A k \in DOMAIN person_uchrabvr :
                    k # p => person_uchrabvr'[k] = person_uchrabvr[k]
             /\ person_uchrabvr'[i] = person_uchrabvr[i]
             /\ person_uchrabvr'[p].nrec = person_uchrabvr[p].nrec
             /\ person_uchrabvr'[p].tabn = person_uchrabvr[p].tabn
             /\ person_uchrabvr'[p].vidop = person_uchrabvr[p].vidop
             /\ person_uchrabvr'[p].summaval = person_uchrabvr[p].summaval
             /\ person_uchrabvr'[p].datan = person_uchrabvr[p].datan
             /\ person_uchrabvr'[p].datok = person_uchrabvr[p].datok
             /\ person_uchrabvr'[p].clsch = person_uchrabvr[p].clsch
             /\ (UNCHANGED <<SQL_update_queries, index_by_key, log>>) ]_vars

\* the two-row example after the match of its second row: the first row has the
\* sum 100.00, the second row is as it was read and no statement exists yet
MatchChangesOnlySumWitness ==
    /\ pc = "resolve"
    /\ input = TwoRowExample
    /\ i = 3
    /\ person_uchrabvr[1] = [TwoRowExample[1] EXCEPT !.summa = S_100]
    /\ person_uchrabvr[2] = TwoRowExample[2]
    /\ SQL_update_queries = << >>

\* C27: return_code never goes back to 0.  It is 0 or 1; a step that finds it
\* nonzero leaves it nonzero; and it is 1 from the moment the message about the
\* missing configuration file or a NoPrimaryFound, AmbiguousPrimary or Uncovered
\* message is in the log.
ReturnCodeIsMonotone ==
    /\ [][return_code # 0 => return_code' # 0]_vars
    /\ [](return_code \in {0, 1})
    /\ [](Logged(MatchKinds \cup {"CfgNotFound"}) # {} => return_code = 1)

\* the first employee's row of code 305 had no primary row, the second employee's
\* rows were matched and gave a statement and no message: start() has returned
\* with return_code still 1
ReturnCodeIsMonotoneWitness ==
    /\ pc = "done"
    /\ Len(groups) = 2
    /\ Len(groups[1]) = 1
    /\ Logged({"CfgNotFound"}) = {}
    /\ log[1].kind = "NoPrimaryFound"
    /\ \A k \in DOMAIN log : log[k].tabn \in {"001", "-----"}
    /\ input[2].tabn = "002"
    /\ Len(SQL_update_queries) = 1
    /\ return_code = 1

\* how often a position occurs in a list of positions
Occurrences(nums, p) == Cardinality({n \in DOMAIN nums : nums[n] = p})

\* C28: for the same group, primary codes and period, the list that
\* Uchrabvr.find_uchrabvr takes from the index and the list that the scan of
\* Otpusk.find_uchrabvr builds hold the same positions, each as often, and so have
\* the same length: both give the same zero / one / many decision, and when there
\* is exactly one entry it is the same position.  The positions are those of the
\* rows of the group with a code of the set and the period asked for.
IndexLookupEqualsScan ==
    pc = "find_done" =>
        /\ Len(nums_by_index) = Len(nums_by_scan)
        /\ Range(nums_by_index) = Range(nums_by_scan)
        /\ \A p \in DOMAIN person_uchrabvr :
               Occurrences(nums_by_index, p) = Occurrences(nums_by_scan, p)
        /\ Len(nums_by_index) = 1 => nums_by_index[1] = nums_by_scan[1]
        /\ Range(nums_by_scan) =
              {p \in DOMAIN person_uchrabvr :
                  /\ person_uchrabvr[p].vidop
                        \in Range(normalize_tuple_str(find_primary_vidops))
                  /\ person_uchrabvr[p].datan = find_datan
                  /\ person_uchrabvr[p].datok = find_datok}

\* a group with a row of code 48 before a row of code 18 and the primary codes
\* (18, 48, 87, 204): the index gives the positions in the order of the codes, the
\* scan in the order of the rows, and both give the same two positions
IndexLookupEqualsScanWitness ==
    /\ pc = "find_done"
    /\ Len(person_uchrabvr) = 3
    /\ person_uchrabvr[1].vidop = "48"
    /\ person_uchrabvr[2].vidop = "18" /\ person_uchrabvr[2].datok = Jan31
    /\ person_uchrabvr[3].vidop = "305"
    /\ find_primary_vidops = Tup(<<"18", "48", "87", "204">>)
    /\ find_datok = Jan31
    /\ nums_by_index = <<2, 1>>
    /\ nums_by_scan = <<1, 2>>

\* the number of digits after the "." of a numeral
FractionalDigits(s) ==
    LET dots == {k \in DOMAIN s : s[k] = "."}
    IN  IF dots = {} THEN 0 ELSE Len(s) - (CHOOSE k \in dots : TRUE)

\* every secondary row of the group has an amount that is a numeral of at most two
\* fractional digits
AmountsInCents(person) ==
    \A k \in DOMAIN person :
        MappingsOf(person[k].vidop) # {}
            => /\ IsNumeral(person[k].summaval)
               /\ FractionalDigits(person[k].summaval) <= 2

\* the secondary rows of a group matched to the row at position p: those for
\* which p is the only candidate
MatchedTo(person, p) ==
    {k \in DOMAIN person :
        MappingsOf(person[k].vidop) # {} /\ Candidates(person, person[k]) = {p}}

\* the total of the amounts of a set of rows, in cents
RECURSIVE TotalCents(_, _)
TotalCents(person, ks) ==
    IF ks = {} THEN 0
    ELSE LET k == CHOOSE n \in ks : TRUE
         IN  ValueAt(person[k].summaval, 2) + TotalCents(person, ks \ {k})

\* the orders the rows of a group of n rows can come in
Orders(n) == {f \in [1..n -> 1..n] : \A a, b \in 1..n : f[a] = f[b] => a = b}

\* C29: when the resolution of a group has ended and every secondary amount of
\* the group is a numeral of at most two fractional digits, the sum of every row
\* is a string with two fractional digits whose value is the exact total of the
\* amounts of the secondary rows matched to that row, from 0.00 and whatever sum
\* the row had in the input file (0.00 for a row nothing was matched to); and the
\* rows of the group taken in any other order end with the same sums.
SumIsExactTotal ==
    (pc \in {"cover", "return"} /\ AmountsInCents(person_uchrabvr)) =>
        /\ \A p \in DOMAIN person_uchrabvr :
               /\ TwoFractionalDigits(person_uchrabvr[p].summa)
               /\ ValueAt(person_uchrabvr[p].summa, 2)
                     = TotalCents(person_uchrabvr, MatchedTo(person_uchrabvr, p))
               /\ MatchedTo(person_uchrabvr, p) = {} => person_uchrabvr[p].summa = ZERO
        /\ Len(person_uchrabvr) <= 4 =>
              \A f \in Orders(Len(person_uchrabvr)) :
                 LET taken == [k \in DOMAIN person_uchrabvr |-> groups[Len(groups)][f[k]]]
                     r     == Alone(taken)
                 IN  /\ ~r.stopped
                     /\ \A k \in DOMAIN person_uchrabvr :
                            r.rows[k].summa = person_uchrabvr[f[k]].summa

\* a row of code 48 with the sum 7.50 in the file and two rows of code 305 with
\* 100.00 each: the row of code 48 ends with 200.00
SumIsExactTotalWitness ==
    /\ pc = "cover"
    /\ Len(person_uchrabvr) = 3
    /\ input[1].vidop = "48" /\ input[1].summa = S_7_50
    /\ person_uchrabvr[2].summaval = S_100 /\ person_uchrabvr[3].summaval = S_100
    /\ MatchedTo(person_uchrabvr, 1) = {2, 3}
    /\ person_uchrabvr[1].summa = <<"2", "0", "0", ".", "0", "0">>

\* two amounts of 0.005 were folded into the row of code 18 one after the other:
\* each sum was rounded to 0.00, so the row ends with 0.00 and not with the 0.01
\* of the exact total
EachStepIsRounded ==
    /\ pc = "cover"
    /\ input = ThreeDigitsFile
    /\ MatchedTo(person_uchrabvr, 1) = {2, 3}
    /\ person_uchrabvr[1].summa = ZERO
    /\ SQL_update_queries = << >>

\* C30: when the ValueError of a bad sum has stopped the run, the statement list
\* is, in order, the statements of the groups worked on before the failing group,
\* which are the runs of the stream before it, each worked on to its end; it holds
\* no statement that names a row of the failing group, also when rows of that
\* group had their sums changed before the failure.
AbortKeepsEarlierStatementsOnly ==
    pc \in {"aborted", "exited"} =>
        LET n == Len(groups)
        IN  /\ n >= 1
            /\ \A g \in 1..(n - 1) :
                   groups[g] = Runs(StreamRows)[g] /\ ~Alone(groups[g]).stopped
            /\ [k \in DOMAIN person_uchrabvr |-> person_uchrabvr[k].nrec]
                  = [k \in DOMAIN groups[n] |-> groups[n][k].nrec]
            /\ SQL_update_queries =
                  Flatten([g \in 1..(n - 1) |-> AloneStatements(groups[g])])
            /\ \A j \in DOMAIN SQL_update_queries : \A k \in DOMAIN person_uchrabvr :
                   StatementNrec(SQL_update_queries[j]) # person_uchrabvr[k].nrec

\* the run was stopped in the second group, at its row with the amount "3t14":
\* the row of code 18 of that group already has the sum -90.00, and the list holds
\* the statement of the first group alone
AbortKeepsEarlierStatementsOnlyWitness ==
    /\ pc = "aborted"
    /\ input = BadAmountFile
    /\ Len(groups) = 2
    /\ i = 3
    /\ person_uchrabvr[1].nrec = "12"
    /\ person_uchrabvr[1].summa = S_m90
    /\ SQL_update_queries =
          << <<"UPDATE uchrabvr WHERE nrec=", "10", " SET summa:=", S_100, ";">> >>

====
